---------------------------- MODULE Spec2Model ----------------------------
(***************************************************************************)
(* Menu catalogue and search of the Square B chatbot.                      *)
(*                                                                         *)
(* Two programs of the repository read the same menu file (MENU_TXT):      *)
(*   - src/main.py, a FastAPI application that keeps the parsed menu in    *)
(*     the module globals MENU, MENU_SOURCE_PATH and MENU_MTIME and        *)
(*     searches it with find_items_in_text;                                *)
(*   - src/services/menu_service.py, class MenuService, used by            *)
(*     services/chat_service.py, which keeps menu_items, categories and    *)
(*     all_item_names and searches them with search_item.                  *)
(*                                                                         *)
(* A Python string is modelled as a sequence of characters; a character is *)
(* a one-element TLA+ string, a non-ASCII character is written by its code *)
(* point ("U+0628").  A text is the sequence of its lines.                 *)
(***************************************************************************)
EXTENDS Integers, Sequences, FiniteSets, TLC

(***************************************************************************)
(* Characters and Python string primitives                                 *)
(***************************************************************************)

UpperChars == <<"A", "B", "C", "D", "E", "F", "G", "H", "I", "J", "K", "L", "M",
                "N", "O", "P", "Q", "R", "S", "T", "U", "V", "W", "X", "Y", "Z">>

LowerChars == <<"a", "b", "c", "d", "e", "f", "g", "h", "i", "j", "k", "l", "m",
                "n", "o", "p", "q", "r", "s", "t", "u", "v", "w", "x", "y", "z">>

Digits == {"0", "1", "2", "3", "4", "5", "6", "7", "8", "9"}

\* str.isspace / the regular expression class \s
Whitespace == {" ", "\t"}

\* the characters of the range [\u0600-\u06FF] that the modelled texts use
ArabicChars ==
    {"U+0627", "U+0628", "U+0629", "U+062A", "U+062C", "U+062D", "U+062E",
     "U+062F", "U+0631", "U+0632", "U+0633", "U+0634", "U+0637", "U+0641",
     "U+0642", "U+0643", "U+0644", "U+0645", "U+0646", "U+0647", "U+0648",
     "U+064A"}

\* the character class [...] of the category header pattern
HeaderEmoji == {"U+1F354", "U+1F35F", "U+1F964", "U+1F476", "U+1F9C2"}

\* the regular expression class \w (letters, digits, underscore)
IsWordChar(c) ==
    \/ \E i \in 1..26 : c = UpperChars[i] \/ c = LowerChars[i]
    \/ c \in Digits
    \/ c \in ArabicChars
    \/ c = "_"

\* str.lower on one character
LowerChar(c) ==
    IF \E i \in 1..26 : c = UpperChars[i]
    THEN LowerChars[CHOOSE i \in 1..26 : c = UpperChars[i]]
    ELSE c

\* str.lower
Lower(s) == [i \in 1..Len(s) |-> LowerChar(s[i])]

\* None: the absent value of an optional string
None == <<"<None>">>

\* Python truthiness of an optional string
Truthy(s) == s # None /\ s # <<>>

\* s[i:] and s[:n] with 1-based positions
From(s, i) == IF i > Len(s) THEN <<>> ELSE SubSeq(s, i, Len(s))

Upto(s, n) == IF n <= 0 THEN <<>> ELSE SubSeq(s, 1, IF n > Len(s) THEN Len(s) ELSE n)

\* str.startswith, also at an offset
StartsAt(s, p, i) ==
    /\ i >= 1
    /\ i + Len(p) - 1 <= Len(s)
    /\ \A k \in 1..Len(p) : s[i + k - 1] = p[k]

StartsWith(s, p) == StartsAt(s, p, 1)

EndsWith(s, p) == Len(p) <= Len(s) /\ StartsAt(s, p, Len(s) - Len(p) + 1)

\* the operator "p in s" on strings
Contains(s, p) == \E i \in 1..(Len(s) + 1) : StartsAt(s, p, i)

\* number of leading / trailing characters of s that lie in the set cs
LeadingRun(s, cs) ==
    IF \E i \in 1..Len(s) : s[i] \notin cs
    THEN (CHOOSE i \in 1..Len(s) : s[i] \notin cs /\ \A k \in 1..(i - 1) : s[k] \in cs) - 1
    ELSE Len(s)

TrailingRun(s, cs) ==
    IF \E i \in 1..Len(s) : s[i] \notin cs
    THEN Len(s) - (CHOOSE i \in 1..Len(s) : s[i] \notin cs /\ \A k \in (i + 1)..Len(s) : s[k] \in cs)
    ELSE Len(s)

\* str.lstrip(chars), str.rstrip(chars), str.strip(chars)
LStripSet(s, cs) == From(s, LeadingRun(s, cs) + 1)

RStripSet(s, cs) == Upto(s, Len(s) - TrailingRun(s, cs))

StripSet(s, cs) == RStripSet(LStripSet(s, cs), cs)

\* str.strip()
Strip(s) == StripSet(s, Whitespace)

\* the words of the menu grammar
Dinar == <<"U+062F", "U+064A", "U+0646", "U+0627", "U+0631">>

Bullet == "U+2022"

\* str.split(sep) for a one-character separator
RECURSIVE Split(_, _)
Split(s, sep) ==
    IF \E i \in 1..Len(s) : s[i] = sep
    THEN LET i == CHOOSE i \in 1..Len(s) : s[i] = sep /\ \A k \in 1..(i - 1) : s[k] # sep
         IN  <<Upto(s, i - 1)>> \o Split(From(s, i + 1), sep)
    ELSE <<s>>

\* the elements of a sequence that satisfy a test (a list comprehension with "if")
RECURSIVE SelectNonEmpty(_)
SelectNonEmpty(ss) ==
    IF ss = <<>> THEN <<>>
    ELSE (IF Head(ss) # <<>> THEN <<Head(ss)>> ELSE <<>>) \o SelectNonEmpty(Tail(ss))

\* re.sub(r'\*\*', '', s): every non-overlapping "**" removed, left to right
RECURSIVE RemoveBold(_)
RemoveBold(s) ==
    IF s = <<>> THEN <<>>
    ELSE IF StartsWith(s, <<"*", "*">>) THEN RemoveBold(From(s, 3))
    ELSE <<Head(s)>> \o RemoveBold(Tail(s))

\* concatenation of a sequence of sequences
RECURSIVE Flatten(_)
Flatten(ss) == IF ss = <<>> THEN <<>> ELSE Head(ss) \o Flatten(Tail(ss))

(***************************************************************************)
(* The price pattern  (\d+\.\d+)\s*<dinar>  of menu_service.py             *)
(***************************************************************************)

DigitRun(s, i) == LeadingRun(From(s, i), Digits)

\* length of the match of \d+\.\d+ that starts at position i, 0 when there is none
NumberLenAt(s, i) ==
    LET d1 == DigitRun(s, i)
    IN  IF d1 = 0 \/ i + d1 > Len(s) \/ s[i + d1] # "." THEN 0
        ELSE LET d2 == DigitRun(s, i + d1 + 1)
             IN  IF d2 = 0 THEN 0 ELSE d1 + 1 + d2

\* \d+\.\d+\s*<dinar> matches at position i
PriceMatchAt(s, i) ==
    LET n == NumberLenAt(s, i)
    IN  /\ n > 0
        /\ StartsAt(s, Dinar, i + n + LeadingRun(From(s, i + n), Whitespace))

\* group(1) of re.search(r'(\d+\.\d+)\s*<dinar>', s), None when there is no match
SearchPrice(s) ==
    IF \E i \in 1..Len(s) : PriceMatchAt(s, i)
    THEN LET i == CHOOSE i \in 1..Len(s) :
                      PriceMatchAt(s, i) /\ \A k \in 1..(i - 1) : ~PriceMatchAt(s, k)
         IN  SubSeq(s, i, i + NumberLenAt(s, i) - 1)
    ELSE None

\* \s*-\s*(\d+\.\d+)\s*<dinar> matches at position j
HyphenPriceAt(s, j) ==
    LET h == j + LeadingRun(From(s, j), Whitespace)
    IN  /\ h <= Len(s)
        /\ s[h] = "-"
        /\ PriceMatchAt(s, h + 1 + LeadingRun(From(s, h + 1), Whitespace))

\* the price group of the match of HyphenPriceAt at position j
HyphenPriceGroup(s, j) ==
    LET h == j + LeadingRun(From(s, j), Whitespace)
        p == h + 1 + LeadingRun(From(s, h + 1), Whitespace)
    IN  SubSeq(s, p, p + NumberLenAt(s, p) - 1)

(***************************************************************************)
(* MenuService: the alias tables of _parse_table_row and _parse_list_item  *)
(***************************************************************************)

\* the lists of aliases that _parse_table_row and _parse_list_item extend search_aliases with
Aliases ==
    [ beef |->
          << <<"U+0628", "U+064A", "U+0641">>,
             <<"U+0644", "U+062D", "U+0645">>,
             <<"U+0644", "U+062D", "U+0645", "U+0629">>,
             <<"b", "e", "e", "f">>,
             <<"U+0644", "U+062D", "U+0645", " ", "U+0628", "U+0642", "U+0631", "U+064A">> >>,
      chicken |->
          << <<"U+062F", "U+062C", "U+0627", "U+062C">>,
             <<"U+0634", "U+0643", "U+0646">>,
             <<"c", "h", "i", "c", "k", "e", "n">>,
             <<"U+0641", "U+0631", "U+0627", "U+062E">> >>,
      triple |->
          << <<"U+062A", "U+0631", "U+064A", "U+0628", "U+0644">>, <<"t", "r", "i", "p", "l", "e">> >>,
      fire |->
          << <<"U+062D", "U+0627", "U+0631">>,
             <<"U+0641", "U+0627", "U+064A", "U+0631">>,
             <<"f", "i", "r", "e">>,
             <<"U+062D", "U+0631", "U+0627", "U+0642">> >>,
      burger |->
          << <<"U+0628", "U+0631", "U+062C", "U+0631">>,
             <<"U+0628", "U+0631", "U+0642", "U+0631">>,
             <<"b", "u", "r", "g", "e", "r">>,
             <<"U+0633", "U+0627", "U+0646", "U+062F", "U+0648", "U+062A", "U+0634">> >>,
      meal |->
          << <<"U+0648", "U+062C", "U+0628", "U+0629">>,
             <<"m", "e", "a", "l">>,
             <<"U+0645", "U+064A", "U+0644">> >>,
      fries |->
          << <<"U+0628", "U+0637", "U+0627", "U+0637", "U+0627">>,
             <<"U+0628", "U+0637", "U+0627", "U+0637", "U+0633">>,
             <<"U+0641", "U+0631", "U+0627", "U+064A", "U+0632">>,
             <<"f", "r", "i", "e", "s">>,
             <<"U+0628", "U+0637", "U+0627", "U+0637">> >>,
      cheese |->
          << <<"U+062C", "U+0628", "U+0646", "U+0629">>,
             <<"U+062C", "U+0628", "U+0646">>,
             <<"c", "h", "e", "e", "s", "e">> >>,
      mozzarella |->
          << <<"U+0645", "U+0648", "U+0632", "U+0627", "U+0631", "U+064A", "U+0644", "U+0627">>,
             <<"U+0645", "U+0648", "U+0632", "U+0631", "U+064A", "U+0644", "U+0627">>,
             <<"m", "o", "z", "z", "a", "r", "e", "l", "l", "a">> >>,
      jalapeno |->
          << <<"U+0647", "U+0627", "U+0644", "U+0627", "U+0628", "U+064A", "U+0646", "U+0648">>,
             <<"U+062C", "U+0644", "U+0627", "U+0628", "U+064A", "U+0646", "U+0648">>,
             <<"j", "a", "l", "a", "p", "e", "n", "o">>,
             <<"U+0647", "U+0644", "U+0627", "U+0628", "U+064A", "U+0646", "U+0648">> >>,
      popcorn |->
          << <<"U+0628", "U+0648", "U+0628", " ", "U+0643", "U+0648", "U+0631", "U+0646">>,
             <<"U+0641", "U+0634", "U+0627", "U+0631", " ", "U+062F", "U+062C", "U+0627", "U+062C">>,
             <<"p", "o", "p", "c", "o", "r", "n">> >> ]

\* the suffix of the name of a meal item, " <wajba>"
MealSuffix == <<" ", "U+0648", "U+062C", "U+0628", "U+0629">>

\* "xs if cond else []", the conditional extension of an alias list
When(cond, xs) == IF cond THEN xs ELSE <<>>

\* search_aliases of a table row under the given subcategory
TableAliases(subcategory) ==
    LET subcategory_lower == Lower(subcategory)
    IN  When(Truthy(subcategory),
             <<subcategory>>
             \o When(Contains(subcategory_lower, <<"b", "e", "e", "f">>), Aliases.beef)
             \o When(Contains(subcategory_lower, <<"c", "h", "i", "c", "k", "e", "n">>), Aliases.chicken)
             \o When(Contains(subcategory_lower, <<"t", "r", "i", "p", "l", "e">>), Aliases.triple)
             \o When(Contains(subcategory_lower, <<"f", "i", "r", "e">>), Aliases.fire))
        \o Aliases.burger

\* search_aliases of a list item with the given cleaned name
ListAliases(name_clean) ==
    LET name_lower == Lower(name_clean)
    IN  When(Contains(name_lower, <<"b", "e", "e", "f">>), Aliases.beef)
        \o When(Contains(name_lower, <<"c", "h", "i", "c", "k", "e", "n">>), Aliases.chicken)
        \o When(Contains(name_lower, <<"b", "u", "r", "g", "e", "r">>), Aliases.burger)
        \o When(Contains(name_lower, <<"f", "r", "i", "e", "s">>) \/ Contains(name_lower, <<"U+0628", "U+0637", "U+0627", "U+0637", "U+0627">>), Aliases.fries)
        \o When(Contains(name_lower, <<"c", "h", "e", "e", "s", "e">>), Aliases.cheese)
        \o When(Contains(name_lower, <<"m", "o", "z", "z", "a", "r", "e", "l", "l", "a">>), Aliases.mozzarella)
        \o When(Contains(name_lower, <<"j", "a", "l", "a", "p", "e", "n", "o">>) \/ Contains(name_lower, <<"j", "a", "l", "a", "p", "e", "U+00F1", "o">>),
                Aliases.jalapeno)
        \o When(Contains(name_lower, <<"p", "o", "p", " ", "c", "o", "r", "n">>) \/ Contains(name_lower, <<"p", "o", "p", "c", "o", "r", "n">>),
                Aliases.popcorn)

(***************************************************************************)
(* MenuService: the parser (_parse_menu, _parse_table_row,                 *)
(* _parse_list_item)                                                       *)
(***************************************************************************)

\* self.categories is a dict in insertion order: a sequence of (key, items) entries
CatIndex(cats, k) ==
    IF \E i \in 1..Len(cats) : cats[i].key = k
    THEN CHOOSE i \in 1..Len(cats) : cats[i].key = k
    ELSE 0

\* "if k not in d: d[k] = []"
CatEnsure(cats, k) ==
    IF CatIndex(cats, k) = 0 THEN Append(cats, [key |-> k, items |-> <<>>]) ELSE cats

\* an index that files every item under its first category
CatAppendFirst(cats, k, item) ==
    LET c == CatEnsure(cats, k)
    IN  [c EXCEPT ![1].items = Append(@, item)]

\* d.setdefault(k, []).append(item)
CatAppend(cats, k, item) ==
    LET c == CatEnsure(cats, k)
        i == CatIndex(c, k)
    IN  [c EXCEPT ![i].items = Append(@, item)]

\* the dict a table row or a list item is stored as
MakeItem(name, name_ar, category, subcategory, size, price, type, aliases) ==
    [name |-> name, name_ar |-> name_ar, category |-> category,
     subcategory |-> subcategory, size |-> size, price_regular |-> price,
     price_regular_formatted |-> price \o <<" ">> \o Dinar,
     type |-> type, search_aliases |-> aliases]

\* _parse_table_row: the items a table row adds, in order (none, one or two)
TableRowItems(line, category, subcategory) ==
    LET parts == SelectNonEmpty([i \in 1..Len(Split(line, "|")) |-> Strip(Split(line, "|")[i])])
    IN  IF Len(parts) < 3 THEN <<>>
        ELSE LET size == parts[1]
                 regular_price == SearchPrice(parts[2])
                 meal_price == SearchPrice(parts[3])
                 item_name == IF Truthy(subcategory) THEN subcategory \o <<" ">> \o size ELSE size
                 search_aliases == TableAliases(subcategory)
                 item == MakeItem(item_name, item_name, category, subcategory, size,
                                  regular_price, "regular", search_aliases)
                 meal_item == [item EXCEPT !.name = item_name \o MealSuffix,
                                           !.price_regular = meal_price,
                                           !.price_regular_formatted =
                                               meal_price \o <<" ">> \o Dinar,
                                           !.type = "meal",
                                           !.search_aliases = search_aliases \o Aliases.meal]
             IN  IF \/ Contains(size, <<"S", "i", "z", "e">>)
                    \/ Contains(size, <<"R", "e", "g", "u", "l", "a", "r">>)
                    \/ Contains(size, <<"-", "-", "-">>)
                 THEN <<>>
                 ELSE IF regular_price = None THEN <<>>
                 ELSE IF meal_price = None THEN <<item>>
                 ELSE <<item, meal_item>>

\* the least k >= 1 with  (.+?)  = line[1..k] in
\* re.search(r'(.+?)\s*-\s*(\d+\.\d+)\s*<dinar>', line); 0 when the search fails
ListMatchEnd(line) ==
    IF \E k \in 1..Len(line) : HyphenPriceAt(line, k + 1)
    THEN CHOOSE k \in 1..Len(line) :
             HyphenPriceAt(line, k + 1) /\ \A j \in 1..(k - 1) : ~HyphenPriceAt(line, j + 1)
    ELSE 0

\* re.sub(r'^[-<bullet>]\s*', '', line).strip()
DropBullet(line) ==
    IF line # <<>> /\ line[1] \in {"-", Bullet}
    THEN Strip(LStripSet(Tail(line), Whitespace))
    ELSE Strip(line)

\* _parse_list_item: the items a list line adds (none or one)
ListItems(rawline, category, arabic_translation) ==
    LET line == DropBullet(rawline)
        k == ListMatchEnd(line)
    IN  IF k = 0 THEN <<>>
        ELSE LET name == Strip(Upto(line, k))
                 price == HyphenPriceGroup(line, k + 1)
                 name_clean == Strip(RemoveBold(name))
                 name_ar == IF Truthy(arabic_translation) THEN arabic_translation
                            ELSE name_clean
             IN  << MakeItem(name_clean, name_ar, category, None, None, price,
                             "item", ListAliases(name_clean)) >>

\* self.menu_items.append(item) and the update of self.categories, for each new item
RECURSIVE AddItems(_, _)
AddItems(st, new) ==
    IF new = <<>> THEN st
    ELSE AddItems([st EXCEPT !.items = Append(@, Head(new)),
                             !.cats = IF Truthy(Head(new).category)
                                      THEN CatAppend(@, Head(new).category, Head(new))
                                      ELSE @],
                  Tail(new))

\* group(1).strip() of re.search(r'##\s*[<emoji>]*\s*(.+)', line) for a line that
\* starts with "##"; None when the pattern does not match
CategoryHeaderText(line) ==
    LET r1 == LStripSet(From(line, 3), Whitespace)
        r2 == LStripSet(r1, HeaderEmoji)
        r3 == LStripSet(r2, Whitespace)
    IN  IF r3 # <<>> THEN Strip(r3)
        ELSE IF r2 # <<>> THEN Strip(<<r2[Len(r2)]>>)
        ELSE IF r1 # <<>> THEN Strip(<<r1[Len(r1)]>>)
        ELSE IF Len(line) > 2 THEN Strip(<<line[Len(line)]>>)
        ELSE None

\* group(1).strip() of re.search(r'###\s*(.+)', line) for a line that starts with "###"
SubcategoryHeaderText(line) ==
    LET r == LStripSet(From(line, 4), Whitespace)
    IN  IF r # <<>> THEN Strip(r)
        ELSE IF Len(line) > 3 THEN Strip(<<line[Len(line)]>>)
        ELSE None

\* the state of the loop of _parse_menu before the first line
ParseStart ==
    [items |-> <<>>, cats |-> <<>>, current_category |-> None,
     current_subcategory |-> None, pending_arabic_translation |-> None]

\* one iteration of the loop of _parse_menu
ParseLine(st, rawline) ==
    LET line == Strip(rawline)
    IN  IF line = <<>> \/ StartsWith(line, <<"-", "-", "-">>) THEN st
        ELSE IF StartsWith(line, <<"#", "#">>) /\ ~StartsWith(line, <<"#", "#", "#">>)
        THEN IF CategoryHeaderText(line) = None THEN st
             ELSE [st EXCEPT !.current_category = CategoryHeaderText(line),
                             !.cats = CatEnsure(@, CategoryHeaderText(line))]
        ELSE IF StartsWith(line, <<"#", "#", "#">>)
        THEN IF SubcategoryHeaderText(line) = None THEN st
             ELSE [st EXCEPT !.current_subcategory = SubcategoryHeaderText(line)]
        ELSE IF Contains(line, <<"|">>) /\ Contains(line, Dinar)
        THEN AddItems(st, TableRowItems(line, st.current_category, st.current_subcategory))
        ELSE IF /\ \E i \in 1..Len(line) : line[i] \in ArabicChars
                /\ ~StartsWith(line, <<"-">>)
                /\ ~StartsWith(line, <<"*", "*">>)
        THEN [st EXCEPT !.pending_arabic_translation = line]
        ELSE IF StartsWith(line, <<"-">>) \/ StartsWith(line, <<Bullet>>)
        THEN [AddItems(st, ListItems(line, st.current_category, st.pending_arabic_translation))
                 EXCEPT !.pending_arabic_translation = None]
        ELSE st

\* the loop of _parse_menu over the lines of the text
RECURSIVE ParseLines(_, _)
ParseLines(st, lines) ==
    IF lines = <<>> THEN st ELSE ParseLines(ParseLine(st, Head(lines)), Tail(lines))

\* the names one item contributes to all_item_names
ItemNames(item) ==
    When(item.name # <<>>, <<item.name>>)
    \o When(Truthy(item.name_ar) /\ item.name_ar # item.name, <<item.name_ar>>)
    \o item.search_aliases

\* the list all_item_names that _parse_menu builds from menu_items
BuildItemNames(items) == Flatten([i \in 1..Len(items) |-> ItemNames(items[i])])

\* item.get(key, default) for a dict kept as a record
Get(item, key, default) == IF key \in DOMAIN item THEN item[key] ELSE default

\* the text of the file as one string
RECURSIVE JoinLines(_)
JoinLines(lines) ==
    IF lines = <<>> THEN <<>>
    ELSE IF Len(lines) = 1 THEN lines[1]
    ELSE lines[1] \o <<"\n">> \o JoinLines(Tail(lines))

\* re.search(r'DELIVERY[:\s]+(\d+)', s, re.IGNORECASE) matches at position i: the word,
\* a run of colons and whitespace, a digit
DeliveryAt(s, i) ==
    LET word == <<"d", "e", "l", "i", "v", "e", "r", "y">>
        gap == LeadingRun(From(s, i + Len(word)), Whitespace \cup {":", "\n"})
    IN  /\ StartsAt(Lower(s), word, i)
        /\ gap > 0
        /\ DigitRun(s, i + Len(word) + gap) > 0

\* group(1) of the first match of the pattern in s
DeliveryGroup(s, i) ==
    LET gap == LeadingRun(From(s, i + 8), Whitespace \cup {":", "\n"})
    IN  SubSeq(s, i + 8 + gap, i + 8 + gap + DigitRun(s, i + 8 + gap) - 1)

\* self.delivery_number after the search for the delivery number in the text: the
\* number of the text, and the value it had when the text has none
DeliveryNumber(lines, before) ==
    LET s == JoinLines(lines)
    IN  IF \E i \in 1..Len(s) : DeliveryAt(s, i)
        THEN DeliveryGroup(s, CHOOSE i \in 1..Len(s) :
                                  DeliveryAt(s, i) /\ \A j \in 1..(i - 1) : ~DeliveryAt(s, j))
        ELSE before

\* the label of get_delivery_info
DeliveryLabel ==
    <<"U+0631", "U+0642", "U+0645", " ", "U+0627", "U+0644", "U+062A", "U+0648", "U+0635", "U+064A", "U+0644", ":", " ">>

\* get_delivery_info: the label and self.delivery_number, or the default number when
\* the attribute is not set
get_delivery_info(number) ==
    DeliveryLabel \o (IF number # None THEN number
                      ELSE <<"0", "7", "9", "7", "9", "2", "0", "1", "1", "1">>)

\* format_item_with_price: f"{name} - {price}" with the defaults of the two item.get
format_item_with_price(item) ==
    Get(item, "name_ar", Get(item, "name", <<>>))
    \o <<" ", "-", " ">>
    \o Get(item, "price_regular_formatted",
           Get(item, "price_regular", <<"0", ".", "0", "0">>) \o <<" ">> \o Dinar)

(***************************************************************************)
(* main.py: numbers, MenuItem and load_menu_from_txt                       *)
(***************************************************************************)

DigitValue(c) ==
    CASE c = "0" -> 0 [] c = "1" -> 1 [] c = "2" -> 2 [] c = "3" -> 3 [] c = "4" -> 4
      [] c = "5" -> 5 [] c = "6" -> 6 [] c = "7" -> 7 [] c = "8" -> 8 [] c = "9" -> 9

RECURSIVE DigitsValue(_)
DigitsValue(ds) ==
    IF ds = <<>> THEN 0 ELSE 10 * DigitsValue(Upto(ds, Len(ds) - 1)) + DigitValue(ds[Len(ds)])

\* a float read from a decimal literal is kept exactly, as mant / 10^exp in lowest form
RECURSIVE Decimal(_, _)
Decimal(mant, exp) ==
    IF mant = 0 THEN [mant |-> 0, exp |-> 0]
    ELSE IF exp > 0 /\ mant % 10 = 0 THEN Decimal(mant \div 10, exp - 1)
    ELSE [mant |-> mant, exp |-> exp]

\* the absent price
NoPrice == [mant |-> -1, exp |-> -1]

\* float(s) for a decimal literal: optional sign, digits with at most one point and at
\* least one digit, surrounding whitespace allowed; NoPrice where float() raises
\* ValueError (the exponent, inf and nan forms are not used by the modelled texts)
ParseFloat(raw) ==
    LET s == Strip(raw)
        signed == s # <<>> /\ s[1] \in {"+", "-"}
        body == IF signed THEN Tail(s) ELSE s
        points == {i \in 1..Len(body) : body[i] = "."}
        ok == /\ \A i \in 1..Len(body) : body[i] \in Digits \cup {"."}
              /\ Cardinality(points) <= 1
              /\ \E i \in 1..Len(body) : body[i] \in Digits
        p == IF points = {} THEN Len(body) + 1 ELSE CHOOSE i \in points : TRUE
        whole == Upto(body, p - 1)
        frac == From(body, p + 1)
        value == Decimal(DigitsValue(whole \o frac), Len(frac))
    IN  IF ~ok THEN NoPrice
        ELSE IF signed /\ s[1] = "-" THEN [value EXCEPT !.mant = 0 - @]
        ELSE value

\* str.replace(old, '') : every non-overlapping occurrence removed, left to right
RECURSIVE Remove(_, _)
Remove(s, old) ==
    IF s = <<>> THEN <<>>
    ELSE IF StartsWith(s, old) THEN Remove(From(s, Len(old) + 1), old)
    ELSE <<Head(s)>> \o Remove(Tail(s), old)

\* str.replace(' ', '-')
SpacesToHyphens(s) == [i \in 1..Len(s) |-> IF s[i] = " " THEN "-" ELSE s[i]]

\* price_num(cols[k].replace('JD', '').strip()) inside try/except
price_num(cell) ==
    LET s == Strip(Remove(cell, <<"J", "D">>))
    IN  IF s = <<>> THEN NoPrice ELSE ParseFloat(Strip(Remove(s, <<"J", "D">>)))

\* str(d) for a digit d
DigitText(d) ==
    CASE d = 0 -> "0" [] d = 1 -> "1" [] d = 2 -> "2" [] d = 3 -> "3" [] d = 4 -> "4"
      [] d = 5 -> "5" [] d = 6 -> "6" [] d = 7 -> "7" [] d = 8 -> "8" [] d = 9 -> "9"

\* str(n) for a natural number n
RECURSIVE NatText(_)
NatText(n) == IF n < 10 THEN <<DigitText(n)>> ELSE NatText(n \div 10) \o <<DigitText(n % 10)>>

\* mant / 10^exp in hundredths; with more than two decimals the value is rounded, a
\* tie to even (the binary value of the float decides a tie in Python; the prices of
\* the menus modelled carry at most two decimals)
RECURSIVE Hundredths(_, _)
Hundredths(mant, exp) ==
    IF exp < 2 THEN Hundredths(mant * 10, exp + 1)
    ELSE IF exp = 2 THEN mant
    ELSE LET q == Hundredths(mant \div 10, exp - 1)
             r == mant % 10
         IN  IF r > 5 \/ (r = 5 /\ q % 2 = 1) THEN q + 1 ELSE q

\* f"{price:.2f}"
Fixed2(price) ==
    LET h == Hundredths(IF price.mant < 0 THEN 0 - price.mant ELSE price.mant, price.exp)
    IN  When(price.mant < 0, <<"-">>)
        \o NatText(h \div 100) \o <<".", DigitText((h \div 10) % 10), DigitText(h % 10)>>

\* fmt_jd: f"{price:.2f} <dinar>" if price is not None else ""
fmt_jd(price) == IF price # NoPrice THEN Fixed2(price) \o <<" ">> \o Dinar ELSE <<>>

IsUpperChar(c) == \E i \in 1..26 : c = UpperChars[i]

IsLowerChar(c) == \E i \in 1..26 : c = LowerChars[i]

UpperChar(c) ==
    IF IsLowerChar(c) THEN UpperChars[CHOOSE i \in 1..26 : c = LowerChars[i]] ELSE c

\* str.isupper: some cased character and no lower-case one
IsUpper(s) ==
    /\ \E i \in 1..Len(s) : IsUpperChar(s[i])
    /\ \A i \in 1..Len(s) : ~IsLowerChar(s[i])

\* str.title: a cased character is upper-cased after an uncased one, lower-cased otherwise
Title(s) ==
    [i \in 1..Len(s) |->
        IF i > 1 /\ (IsUpperChar(s[i - 1]) \/ IsLowerChar(s[i - 1]))
        THEN LowerChar(s[i]) ELSE UpperChar(s[i])]

\* MenuItem(id=..., name=..., price=..., category=..., description=...)
MenuItem(id, name, price, category, description) ==
    [id |-> id, name |-> name, price |-> price, category |-> category,
     description |-> description]

\* str.upper
Upper(s) == [i \in 1..Len(s) |-> UpperChar(s[i])]

\* cat_map.get((current_category or '').upper(), current_category)
cat_map(current_category) ==
    LET key == IF Truthy(current_category) THEN Upper(current_category) ELSE <<>>
    IN  IF key = <<"K", "I", "D", "S", " ", "M", "E", "N", "U">> THEN <<"K", "I", "D", "S">>
        ELSE IF key = <<"S", "I", "D", "E", "S">> THEN <<"S", "I", "D", "E", "S">>
        ELSE IF key = <<"D", "R", "I", "N", "K", "S">> THEN <<"D", "R", "I", "N", "K", "S">>
        ELSE current_category

\* the tail  \*\* - ([0-9.]+) JD\s*$  of the bullet pattern matches at position j
BulletTailAt(line, j) ==
    /\ StartsAt(line, <<"*", "*", " ", "-", " ">>, j)
    /\ LET r == From(line, j + 5)
       IN  /\ Len(r) > 3
           /\ EndsWith(r, <<" ", "J", "D">>)
           /\ \A k \in 1..(Len(r) - 3) : r[k] \in Digits \cup {"."}

\* the length of group(1) of re.match(r"^- \*\*(.+?)\*\* - ([0-9.]+) JD\s*$", line);
\* 0 when the line does not match
BulletNameLen(line) ==
    IF /\ StartsWith(line, <<"-", " ", "*", "*">>)
       /\ \E k \in 1..Len(line) : BulletTailAt(line, 5 + k)
    THEN CHOOSE k \in 1..Len(line) :
             BulletTailAt(line, 5 + k) /\ \A j \in 1..(k - 1) : ~BulletTailAt(line, 5 + j)
    ELSE 0

\* lines[i].strip() if i < len(lines) else ''
LineAt(lines, i) == IF i >= 1 /\ i <= Len(lines) THEN Strip(lines[i]) ELSE <<>>

\* cols = [c.strip() for c in row.strip('|').split('|')]
StripAll(parts) == [k \in 1..Len(parts) |-> Strip(parts[k])]

Cols(row) == StripAll(Split(StripSet(row, {"|"}), "|"))

\* the item of one price of a table row, none when price_num gave None
RowItem(base_name, size, kind, price, pending_desc) ==
    When(price # NoPrice,
         << MenuItem(base_name \o <<"-">> \o size \o <<"-">> \o Lower(kind),
                     base_name \o <<" ">> \o size \o <<" ", "(">> \o kind \o <<")">>,
                     price, <<"B", "U", "R", "G", "E", "R", "S">>, pending_desc) >>)

\* the items of one table row with the columns cols
RowItems(cols, base_name, pending_desc) ==
    IF Len(cols) >= 3
    THEN RowItem(base_name, cols[1], <<"R", "e", "g", "u", "l", "a", "r">>, price_num(cols[2]), pending_desc)
         \o RowItem(base_name, cols[1], <<"M", "e", "a", "l">>, price_num(cols[3]), pending_desc)
    ELSE <<>>

\* base_name = (current_sub or 'BURGER').strip()
BaseName(current_sub) == Strip(IF Truthy(current_sub) THEN current_sub ELSE <<"B", "U", "R", "G", "E", "R">>)

\* the items of a row put before those of the rows after it
RowsBefore(new, rest) == [next |-> rest.next, items |-> new \o rest.items]

\* the rows of a price table that starts at line i: the items they add and the index of
\* the first line after them
RECURSIVE TableRows(_, _, _, _)
TableRowsAt(lines, i, current_sub, pending_desc, row) ==
    IF i > Len(lines) \/ row = <<>> \/ ~StartsWith(row, <<"|">>)
    THEN [next |-> i, items |-> <<>>]
    ELSE RowsBefore(RowItems(Cols(row), BaseName(current_sub), pending_desc),
                    TableRows(lines, i + 1, current_sub, pending_desc))

TableRows(lines, i, current_sub, pending_desc) ==
    TableRowsAt(lines, i, current_sub, pending_desc, LineAt(lines, i))

\* the state of the loop of load_menu_from_txt before the first line
LoadStart ==
    [items |-> <<>>, current_category |-> None, current_sub |-> None,
     pending_desc |-> None, in_table |-> FALSE]

\* the line after a bold description line is taken as its second half
TakesNext(next_line) ==
    /\ next_line # <<>>
    /\ ~StartsWith(next_line, <<"|">>)
    /\ ~StartsWith(next_line, <<"*", "*">>)
    /\ ~StartsWith(next_line, <<"#", "#">>)
    /\ ~StartsWith(next_line, <<"#", "#", "#">>)

\* the bold description line: pending_desc and the next line index
DescStep(i, st, desc_en, next_line) ==
    [next |-> IF TakesNext(next_line) THEN i + 2 ELSE i + 1,
     st |-> [st EXCEPT !.pending_desc =
                IF TakesNext(next_line) THEN desc_en \o <<" ", "/", " ">> \o next_line
                ELSE desc_en]]

\* the header line of a price table: the rows after the separator line
TableStep(st, rows) ==
    [next |-> rows.next, st |-> [st EXCEPT !.in_table = TRUE, !.items = @ \o rows.items]]

\* the line after a bullet line is taken as its description
BulletDesc(next_line) ==
    IF /\ next_line # <<>>
       /\ ~StartsWith(next_line, <<"-">>)
       /\ ~StartsWith(next_line, <<"*", "*">>)
       /\ ~StartsWith(next_line, <<"|">>)
    THEN next_line ELSE None

\* the item of a bullet line
BulletItem(name, number, current_category, desc) ==
    MenuItem(SpacesToHyphens(Lower(name)),
             IF IsUpper(name) THEN Title(name) ELSE name,
             ParseFloat(number),
             cat_map(current_category),
             desc)

\* group(2) of the bullet pattern, for a name of n characters
BulletNumber(rest) == Upto(rest, Len(rest) - 3)

\* a bullet line whose group(1) has n characters
BulletStep(i, st, line, n, desc) ==
    [next |-> IF desc # None THEN i + 2 ELSE i + 1,
     st |-> [st EXCEPT !.items = Append(@,
                BulletItem(Strip(SubSeq(line, 5, 4 + n)),
                           BulletNumber(From(line, 5 + n + 5)),
                           st.current_category, desc))]]

\* the item of a line of the sauces block
SauceItem(sauce_name, pending_desc) ==
    MenuItem(SpacesToHyphens(Lower(<<"s", "a", "u", "c", "e", "-">> \o sauce_name)),
             sauce_name, Decimal(50, 2), <<"S", "A", "U", "C", "E", "S">>, pending_desc)

\* (current_category or '').upper()
UpperCategory(current_category) ==
    IF Truthy(current_category) THEN Upper(current_category) ELSE <<>>

\* one pass of the while loop of load_menu_from_txt at line i, whose stripped text is
\* line, followed by next_line; n is the length of group(1) of the bullet pattern on
\* the line and upper_category the upper-cased category: the next line index and the
\* new loop state
LoadStepAt(lines, i, st, line, next_line, n, upper_category) ==
    IF StartsWith(line, <<"#", "#", " ">>)
    THEN [next |-> i + 1,
          st |-> [st EXCEPT !.current_category = StripSet(From(line, 4), {" ", "#"}),
                            !.current_sub = None,
                            !.pending_desc = None,
                            !.in_table = FALSE]]
    ELSE IF StartsWith(line, <<"#", "#", "#", " ">>)
    THEN [next |-> i + 1,
          st |-> [st EXCEPT !.current_sub = Strip(From(line, 5)),
                            !.pending_desc = None,
                            !.in_table = FALSE]]
    ELSE IF StartsWith(line, <<"*", "*">>) /\ EndsWith(line, <<"*", "*">>) /\ Len(line) > 4
    THEN DescStep(i, st, StripSet(line, {"*", " "}), next_line)
    ELSE IF /\ Contains(line, <<"|", " ">> \o <<"S", "i", "z", "e">> \o <<" ", "|">>)
            /\ Contains(line, <<"R", "e", "g", "u", "l", "a", "r">>)
            /\ Contains(line, <<"M", "e", "a", "l">>)
    THEN TableStep(st, TableRows(lines, i + 2, st.current_sub, st.pending_desc))
    ELSE IF n > 0
    THEN BulletStep(i, st, line, n, BulletDesc(next_line))
    \* the first alternative of the sauces test compares an upper-cased string with
    \* a literal that holds a lower-case letter, so only the second one can hold
    ELSE IF upper_category = <<"S", "A", "U", "C", "E", "S">> /\ Contains(line, <<"0", ".", "5", "0", " ", "J", "D">>)
    THEN [next |-> i + 1, st |-> [st EXCEPT !.pending_desc = <<"E", "a", "c", "h", " ", "s", "a", "u", "c", "e", " ", "0", ".", "5", "0", " ", "J", "D">>]]
    ELSE IF upper_category = <<"S", "A", "U", "C", "E", "S">> /\ StartsWith(line, <<"-", " ">>)
    THEN [next |-> i + 1,
          st |-> [st EXCEPT !.items = Append(@, SauceItem(Strip(From(line, 3)),
                                                          st.pending_desc))]]
    ELSE [next |-> i + 1, st |-> st]

\* the bullet pattern is matched against the stripped line
LoadStepOn(lines, i, st, line) ==
    LoadStepAt(lines, i, st, line, LineAt(lines, i + 1), BulletNameLen(line),
               UpperCategory(st.current_category))

LoadStep(lines, i, st) == LoadStepOn(lines, i, st, LineAt(lines, i))

\* the while loop of load_menu_from_txt from line i on
RECURSIVE LoadLoop(_, _, _)
LoadFrom(lines, step) == LoadLoop(lines, step.next, step.st)

LoadLoop(lines, i, st) ==
    IF i > Len(lines) THEN st ELSE LoadFrom(lines, LoadStep(lines, i, st))

(***************************************************************************)
(* main.py: normalize, difflib.SequenceMatcher.ratio and                   *)
(* find_items_in_text                                                      *)
(***************************************************************************)

\* re.sub(r"\s+", " ", s): every run of whitespace becomes one space
RECURSIVE CollapseSpaces(_)
CollapseSpaces(s) ==
    IF s = <<>> THEN <<>>
    ELSE IF Head(s) \in Whitespace
    THEN <<" ">> \o CollapseSpaces(LStripSet(s, Whitespace))
    ELSE <<Head(s)>> \o CollapseSpaces(Tail(s))

\* normalize(s) = re.sub(r"\s+", " ", (s or '').strip()).lower()
normalize(s) == Lower(CollapseSpaces(Strip(IF s = None THEN <<>> ELSE s)))

\* re.split(r"\W+", text): the pieces between the runs of non-word characters
RECURSIVE SplitWords(_)
SplitWords(s) ==
    IF \E i \in 1..Len(s) : ~IsWordChar(s[i])
    THEN LET i == CHOOSE i \in 1..Len(s) :
                      ~IsWordChar(s[i]) /\ \A k \in 1..(i - 1) : IsWordChar(s[k])
             rest == From(s, i)
             run == CHOOSE n \in 1..Len(rest) :
                        /\ \A k \in 1..n : ~IsWordChar(rest[k])
                        /\ (n = Len(rest) \/ IsWordChar(rest[n + 1]))
         IN  <<Upto(s, i - 1)>> \o SplitWords(From(rest, run + 1))
    ELSE <<s>>

\* the least length of a word that find_items_in_text keeps as a token
MinTokenLen == 3

\* tokens = [w for w in re.split(r"\W+", text) if len(w) >= 3]
RECURSIVE KeepTokens(_)
KeepTokens(ws) ==
    IF ws = <<>> THEN <<>>
    ELSE (IF Len(Head(ws)) >= MinTokenLen THEN <<Head(ws)>> ELSE <<>>) \o KeepTokens(Tail(ws))

Tokens(text) == KeepTokens(SplitWords(text))

\* length of the common run of a from i and b from j
RECURSIVE CommonRun(_, _, _, _)
CommonRun(a, b, i, j) ==
    IF i > Len(a) \/ j > Len(b) \/ a[i] # b[j] THEN 0 ELSE 1 + CommonRun(a, b, i + 1, j + 1)

\* SequenceMatcher.find_longest_match without junk: the longest common block, the
\* one that starts earliest in a and, of those, earliest in b
LongestMatch(a, b) ==
    LET blocks == {<<i, j>> \in (1..Len(a)) \X (1..Len(b)) : a[i] = b[j]}
        best == CHOOSE p \in blocks :
                    \A q \in blocks :
                        \/ CommonRun(a, b, p[1], p[2]) > CommonRun(a, b, q[1], q[2])
                        \/ /\ CommonRun(a, b, p[1], p[2]) = CommonRun(a, b, q[1], q[2])
                           /\ (p[1] < q[1] \/ (p[1] = q[1] /\ p[2] <= q[2]))
    IN  IF blocks = {} THEN [i |-> 0, j |-> 0, size |-> 0]
        ELSE [i |-> best[1], j |-> best[2], size |-> CommonRun(a, b, best[1], best[2])]

\* sum of the sizes of SequenceMatcher.get_matching_blocks
RECURSIVE MatchingChars(_, _)
MatchingChars(a, b) ==
    LET m == LongestMatch(a, b)
    IN  IF m.size = 0 THEN 0
        ELSE m.size
             + MatchingChars(Upto(a, m.i - 1), Upto(b, m.j - 1))
             + MatchingChars(From(a, m.i + m.size), From(b, m.j + m.size))

\* a score of find_items_in_text is the fraction num / den
Zero == [num |-> 0, den |-> 1]

\* x >= y on fractions
GreaterEq(x, y) == x.num * y.den >= y.num * x.den

\* SequenceMatcher(a=a, b=b).ratio() = 2.0 * matches / (len(a) + len(b)), 1.0 for two
\* empty strings
Ratio(a, b) ==
    IF Len(a) + Len(b) = 0 THEN [num |-> 1, den |-> 1]
    ELSE [num |-> 2 * MatchingChars(a, b), den |-> Len(a) + Len(b)]

\* max(xs or [0.0])
RECURSIVE MaxScore(_)
MaxScore(xs) ==
    IF xs = <<>> THEN Zero
    ELSE IF Len(xs) = 1 THEN Head(xs)
    ELSE IF GreaterEq(Head(xs), MaxScore(Tail(xs))) THEN Head(xs) ELSE MaxScore(Tail(xs))

\* the cut-off 0.6 of find_items_in_text
Cutoff == [num |-> 6, den |-> 10]

\* the number of items find_items_in_text returns at most
MaxFound == 5

\* list.sort(key=..., reverse=True): a stable sort by descending key; an element is a
\* record whose field key is a fraction
RECURSIVE InsertByKey(_, _)
InsertByKey(sorted, e) ==
    IF sorted = <<>> THEN <<e>>
    ELSE IF GreaterEq(Head(sorted).key, e.key)
    THEN <<Head(sorted)>> \o InsertByKey(Tail(sorted), e)
    ELSE <<e>> \o sorted

RECURSIVE SortByKey(_)
SortByKey(xs) ==
    IF xs = <<>> THEN <<>>
    ELSE InsertByKey(SortByKey(Upto(xs, Len(xs) - 1)), xs[Len(xs)])

\* the score find_items_in_text gives an item for the normalized text
ItemScore(it, text) ==
    LET tokens == Tokens(text)
    IN  MaxScore([k \in 1..Len(tokens) |-> Ratio(normalize(it.name), tokens[k])])

\* the substring test the other way round: the text is a part of the name
DirectMatchesSwapped(menu, text) ==
    LET IsDirect(it) == normalize(it.name) # <<>> /\ Contains(normalize(it.name), text)
    IN  SelectSeq(menu, IsDirect)

\* the items whose normalized name is a non-empty substring of the normalized text
DirectMatches(menu, text) ==
    LET IsDirect(it) == normalize(it.name) # <<>> /\ Contains(text, normalize(it.name))
    IN  SelectSeq(menu, IsDirect)

\* the list "scored" of find_items_in_text after its sort
ScoredMatches(menu, text) ==
    LET Clears(e) == GreaterEq(e.key, Cutoff)
    IN  SortByKey(SelectSeq([k \in 1..Len(menu) |->
                                [key |-> ItemScore(menu[k], text), item |-> menu[k]]],
                            Clears))

\* find_items_in_text(user_text) on the menu
find_items_in_text(menu, user_text) ==
    LET text == normalize(user_text)
        direct == DirectMatches(menu, text)
        scored == ScoredMatches(menu, text)
    IN  IF menu = <<>> THEN <<>>
        ELSE IF direct # <<>> THEN Upto(direct, MaxFound)
        ELSE [k \in 1..Len(Upto(scored, MaxFound)) |-> scored[k].item]

(***************************************************************************)
(* MenuService.search_item                                                 *)
(*                                                                         *)
(* fuzz.WRatio belongs to the rapidfuzz library.  Its value for a pair of  *)
(* strings is an input of the model: a table gives the score of every name *)
(* the library is free to rate, within what the library fixes: two equal   *)
(* strings score 100 and two strings without a common character, whatever  *)
(* their case, score 0.                                                    *)
(***************************************************************************)

\* limit=10 of process.extract
ExtractLimit == 10

\* results[:5]
MaxResults == 5

\* the score of two equal strings
FullScore == 100

\* the default of the parameter threshold
DefaultThreshold == 60

\* a second threshold a caller may pass
HighThreshold == 90

Thresholds == {DefaultThreshold, HighThreshold}

\* the scores the tables give to a name that is neither equal to the query nor
\* without a common character with it
FreeScores == {DefaultThreshold - 1, DefaultThreshold}

Chars(s) == {s[i] : i \in 1..Len(s)}

\* two strings have a character in common, whatever its case
Overlap(s, t) == Chars(Lower(s)) \cap Chars(Lower(t)) # {}

\* the names whose score the library is free to choose for the query
RatedNames(names, query) ==
    {names[i] : i \in {k \in 1..Len(names) : names[k] # query /\ Overlap(names[k], query)}}

ScoreTables(names, query) == [RatedNames(names, query) -> FreeScores]

\* fuzz.WRatio(query, choice) under a table
WRatio(table, query, choice) ==
    IF choice = query THEN FullScore
    ELSE IF ~Overlap(choice, query) THEN 0
    ELSE table[choice]

\* a score as the key of a sort
AsKey(score) == [num |-> score, den |-> 1]

\* process.extract(query, names, scorer=fuzz.WRatio, limit=10): the choices with their
\* score and index, best first, ties in the order of the list, cut to the limit
Extract(table, query, names) ==
    Upto(SortByKey([i \in 1..Len(names) |->
                       [key |-> AsKey(WRatio(table, query, names[i])),
                        text |-> names[i],
                        score |-> WRatio(table, query, names[i]),
                        index |-> i]]),
         ExtractLimit)

\* item_id = f"{item['name']}_{item.get('price_regular')}"
ItemId(item) == item.name \o <<"_">> \o item.price_regular

\* the test of search_item that a matched text belongs to an item
Owns(item, match_text) ==
    \/ item.name = match_text
    \/ item.name_ar = match_text
    \/ \E k \in 1..Len(item.search_aliases) : item.search_aliases[k] = match_text

\* the inner loop without the test of seen_items: the first item that owns the text
FirstOwnerAny(items, seen, match_text) ==
    LET cand == {i \in 1..Len(items) : Owns(items[i], match_text)}
    IN  IF cand = {} THEN 0 ELSE CHOOSE i \in cand : \A k \in cand : i <= k

\* the inner loop of search_item: the index of the first item that is not yet seen and
\* owns the text, 0 when there is none
FirstOwner(items, seen, match_text) ==
    LET cand == {i \in 1..Len(items) : ItemId(items[i]) \notin seen /\ Owns(items[i], match_text)}
    IN  IF cand = {} THEN 0 ELSE CHOOSE i \in cand : \A k \in cand : i <= k

\* a strict comparison with the threshold
PassesStrict(score, threshold) == score > threshold

\* if score >= threshold
Passes(score, threshold) == score >= threshold

\* the outer loop of search_item over the matches, from the state (results, seen)
RECURSIVE Resolve(_, _, _, _, _)
Resolve(matches, items, threshold, results, seen) ==
    IF matches = <<>> THEN results
    ELSE LET m == Head(matches)
             i == FirstOwner(items, seen, m.text)
         IN  IF Passes(m.score, threshold) /\ i # 0
             THEN Resolve(Tail(matches), items, threshold,
                          Append(results, [item |-> items[i], score |-> m.score,
                                           key |-> AsKey(m.score)]),
                          seen \cup {ItemId(items[i])})
             ELSE Resolve(Tail(matches), items, threshold, results, seen)

\* results.sort(key=score, reverse=True); return results[:5]
TopResults(results) ==
    LET top == Upto(SortByKey(results), MaxResults)
    IN  [k \in 1..Len(top) |-> [item |-> top[k].item, score |-> top[k].score]]

\* search_item(query, threshold) on a catalogue with the names and the items, for a
\* scorer with the table
search_item(query, threshold, table, names, items) ==
    IF query = <<>> \/ names = <<>>
    THEN <<>>
    ELSE TopResults(Resolve(Extract(table, query, names), items, threshold, <<>>, {}))

(***************************************************************************)
(* The menu file: the texts it may hold                                    *)
(***************************************************************************)

\* the empty file
EmptyText == << <<>> >>

\* a text without a single line of the menu grammar:
\*     hello
JunkText ==
    << <<"h", "e", "l", "l", "o">> >>

\* a list menu in the format of menu_service.py: two items share the cheese aliases:
\*     ## SIDES
\*     - Cheese Dip - 0.50 <dinar>
\*     - Cola - 0.50 <dinar>
\*     - **Cheese Bun** - 0.75 <dinar>
ServiceListText ==
    << <<"#", "#", " ", "S", "I", "D", "E", "S">>,
       <<"-", " ", "C", "h", "e", "e", "s", "e", " ", "D", "i", "p", " ", "-", " ", "0", ".", "5", "0", " ", "U+062F", "U+064A", "U+0646", "U+0627", "U+0631">>,
       <<"-", " ", "C", "o", "l", "a", " ", "-", " ", "0", ".", "5", "0", " ", "U+062F", "U+064A", "U+0646", "U+0627", "U+0631">>,
       <<"-", " ", "*", "*", "C", "h", "e", "e", "s", "e", " ", "B", "u", "n", "*", "*", " ", "-", " ", "0", ".", "7", "5", " ", "U+062F", "U+064A", "U+0646", "U+0627", "U+0631">> >>

\* the same name and price under two categories:
\*     ## DRINKS
\*     - Cola - 0.50 <dinar>
\*     ## KIDS
\*     - Cola - 0.50 <dinar>
ServiceTwinText ==
    << <<"#", "#", " ", "D", "R", "I", "N", "K", "S">>,
       <<"-", " ", "C", "o", "l", "a", " ", "-", " ", "0", ".", "5", "0", " ", "U+062F", "U+064A", "U+0646", "U+0627", "U+0631">>,
       <<"#", "#", " ", "K", "I", "D", "S">>,
       <<"-", " ", "C", "o", "l", "a", " ", "-", " ", "0", ".", "5", "0", " ", "U+062F", "U+064A", "U+0646", "U+0627", "U+0631">> >>

\* a price table in the format of menu_service.py: four items, more than ten names:
\*     ## BURGERS
\*     ### Max
\*     | Size | Regular | Meal |
\*     |---|---|---|
\*     | Single | 2.50 <dinar> | 3.50 <dinar> |
\*     | Single | 2.75 <dinar> | 3.75 <dinar> |
ServiceTableText ==
    << <<"#", "#", " ", "B", "U", "R", "G", "E", "R", "S">>,
       <<"#", "#", "#", " ", "M", "a", "x">>,
       <<"|", " ", "S", "i", "z", "e", " ", "|", " ", "R", "e", "g", "u", "l", "a", "r", " ", "|", " ", "M", "e", "a", "l", " ", "|">>,
       <<"|", "-", "-", "-", "|", "-", "-", "-", "|", "-", "-", "-", "|">>,
       <<"|", " ", "S", "i", "n", "g", "l", "e", " ", "|", " ", "2", ".", "5", "0", " ", "U+062F", "U+064A", "U+0646", "U+0627", "U+0631", " ", "|", " ", "3", ".", "5", "0", " ", "U+062F", "U+064A", "U+0646", "U+0627", "U+0631", " ", "|">>,
       <<"|", " ", "S", "i", "n", "g", "l", "e", " ", "|", " ", "2", ".", "7", "5", " ", "U+062F", "U+064A", "U+0646", "U+0627", "U+0631", " ", "|", " ", "3", ".", "7", "5", " ", "U+062F", "U+064A", "U+0646", "U+0627", "U+0631", " ", "|">> >>

\* a list menu in the format of main.py:
\*     ## SIDES
\*     - **Fries** - 1.50 JD
\*     - **Cheese Fries** - 2.50 JD
\*     - **Cola** - 0.50 JD
\*     - **Coke** - 0.50 JD
MainListText ==
    << <<"#", "#", " ", "S", "I", "D", "E", "S">>,
       <<"-", " ", "*", "*", "F", "r", "i", "e", "s", "*", "*", " ", "-", " ", "1", ".", "5", "0", " ", "J", "D">>,
       <<"-", " ", "*", "*", "C", "h", "e", "e", "s", "e", " ", "F", "r", "i", "e", "s", "*", "*", " ", "-", " ", "2", ".", "5", "0", " ", "J", "D">>,
       <<"-", " ", "*", "*", "C", "o", "l", "a", "*", "*", " ", "-", " ", "0", ".", "5", "0", " ", "J", "D">>,
       <<"-", " ", "*", "*", "C", "o", "k", "e", "*", "*", " ", "-", " ", "0", ".", "5", "0", " ", "J", "D">> >>

\* a price table in the format of main.py:
\*     ### Max
\*     | Size | Regular | Meal |
\*     |---|---|---|
\*     | Single | 2.50 JD | 3.50 JD |
MainTableText ==
    << <<"#", "#", "#", " ", "M", "a", "x">>,
       <<"|", " ", "S", "i", "z", "e", " ", "|", " ", "R", "e", "g", "u", "l", "a", "r", " ", "|", " ", "M", "e", "a", "l", " ", "|">>,
       <<"|", "-", "-", "-", "|", "-", "-", "-", "|", "-", "-", "-", "|">>,
       <<"|", " ", "S", "i", "n", "g", "l", "e", " ", "|", " ", "2", ".", "5", "0", " ", "J", "D", " ", "|", " ", "3", ".", "5", "0", " ", "J", "D", " ", "|">> >>

\* six items of one name in the format of menu_service.py, more than a search returns:
\*     ## DRINKS
\*     - Cola - 0.50 <dinar>
\*     - Cola - 0.51 <dinar>
\*     - Cola - 0.52 <dinar>
\*     - Cola - 0.53 <dinar>
\*     - Cola - 0.54 <dinar>
\*     - Cola - 0.55 <dinar>
ServiceManyText ==
    << <<"#", "#", " ", "D", "R", "I", "N", "K", "S">>,
       <<"-", " ", "C", "o", "l", "a", " ", "-", " ", "0", ".", "5", "0", " ", "U+062F", "U+064A", "U+0646", "U+0627", "U+0631">>,
       <<"-", " ", "C", "o", "l", "a", " ", "-", " ", "0", ".", "5", "1", " ", "U+062F", "U+064A", "U+0646", "U+0627", "U+0631">>,
       <<"-", " ", "C", "o", "l", "a", " ", "-", " ", "0", ".", "5", "2", " ", "U+062F", "U+064A", "U+0646", "U+0627", "U+0631">>,
       <<"-", " ", "C", "o", "l", "a", " ", "-", " ", "0", ".", "5", "3", " ", "U+062F", "U+064A", "U+0646", "U+0627", "U+0631">>,
       <<"-", " ", "C", "o", "l", "a", " ", "-", " ", "0", ".", "5", "4", " ", "U+062F", "U+064A", "U+0646", "U+0627", "U+0631">>,
       <<"-", " ", "C", "o", "l", "a", " ", "-", " ", "0", ".", "5", "5", " ", "U+062F", "U+064A", "U+0646", "U+0627", "U+0631">> >>

\* six items of one name in the format of main.py, more than a search returns:
\*     ## DRINKS
\*     - **Cola** - 0.50 JD
\*     - **Cola** - 0.51 JD
\*     - **Cola** - 0.52 JD
\*     - **Cola** - 0.53 JD
\*     - **Cola** - 0.54 JD
\*     - **Cola** - 0.55 JD
MainManyText ==
    << <<"#", "#", " ", "D", "R", "I", "N", "K", "S">>,
       <<"-", " ", "*", "*", "C", "o", "l", "a", "*", "*", " ", "-", " ", "0", ".", "5", "0", " ", "J", "D">>,
       <<"-", " ", "*", "*", "C", "o", "l", "a", "*", "*", " ", "-", " ", "0", ".", "5", "1", " ", "J", "D">>,
       <<"-", " ", "*", "*", "C", "o", "l", "a", "*", "*", " ", "-", " ", "0", ".", "5", "2", " ", "J", "D">>,
       <<"-", " ", "*", "*", "C", "o", "l", "a", "*", "*", " ", "-", " ", "0", ".", "5", "3", " ", "J", "D">>,
       <<"-", " ", "*", "*", "C", "o", "l", "a", "*", "*", " ", "-", " ", "0", ".", "5", "4", " ", "J", "D">>,
       <<"-", " ", "*", "*", "C", "o", "l", "a", "*", "*", " ", "-", " ", "0", ".", "5", "5", " ", "J", "D">> >>

\* a price table in the format of menu_service.py with a row of the size Regular and a
\* row without a regular price:
\*     ## BURGERS
\*     ### Beef
\*     | Size | Regular | Meal |
\*     |---|---|---|
\*     | Regular | 3.50 <dinar> | 4.75 <dinar> |
\*     | Double | n/a | 5.25 <dinar> |
ServiceRowsText ==
    << <<"#", "#", " ", "B", "U", "R", "G", "E", "R", "S">>,
       <<"#", "#", "#", " ", "B", "e", "e", "f">>,
       <<"|", " ", "S", "i", "z", "e", " ", "|", " ", "R", "e", "g", "u", "l", "a", "r", " ", "|", " ", "M", "e", "a", "l", " ", "|">>,
       <<"|", "-", "-", "-", "|", "-", "-", "-", "|", "-", "-", "-", "|">>,
       <<"|", " ", "R", "e", "g", "u", "l", "a", "r", " ", "|", " ", "3", ".", "5", "0", " ", "U+062F", "U+064A", "U+0646", "U+0627", "U+0631", " ", "|", " ", "4", ".", "7", "5", " ", "U+062F", "U+064A", "U+0646", "U+0627", "U+0631", " ", "|">>,
       <<"|", " ", "D", "o", "u", "b", "l", "e", " ", "|", " ", "n", "/", "a", " ", "|", " ", "5", ".", "2", "5", " ", "U+062F", "U+064A", "U+0646", "U+0627", "U+0631", " ", "|">> >>

\* a price table in the format of main.py with a row of the size Regular, a row without a
\* regular price and a row with a minus sign before the regular price:
\*     ## BURGERS
\*     ### Beef
\*     | Size | Regular | Meal |
\*     |---|---|---|
\*     | Regular | 3.50 JD | 4.75 JD |
\*     | Double | n/a | 5.25 JD |
\*     | Triple | -2.50 JD | 6.00 JD |
MainRowsText ==
    << <<"#", "#", " ", "B", "U", "R", "G", "E", "R", "S">>,
       <<"#", "#", "#", " ", "B", "e", "e", "f">>,
       <<"|", " ", "S", "i", "z", "e", " ", "|", " ", "R", "e", "g", "u", "l", "a", "r", " ", "|", " ", "M", "e", "a", "l", " ", "|">>,
       <<"|", "-", "-", "-", "|", "-", "-", "-", "|", "-", "-", "-", "|">>,
       <<"|", " ", "R", "e", "g", "u", "l", "a", "r", " ", "|", " ", "3", ".", "5", "0", " ", "J", "D", " ", "|", " ", "4", ".", "7", "5", " ", "J", "D", " ", "|">>,
       <<"|", " ", "D", "o", "u", "b", "l", "e", " ", "|", " ", "n", "/", "a", " ", "|", " ", "5", ".", "2", "5", " ", "J", "D", " ", "|">>,
       <<"|", " ", "T", "r", "i", "p", "l", "e", " ", "|", " ", "-", "2", ".", "5", "0", " ", "J", "D", " ", "|", " ", "6", ".", "0", "0", " ", "J", "D", " ", "|">> >>

\* a list in the format of menu_service.py: a name that is one of its own aliases, and
\* a price that is not a number:
\*     ## SIDES
\*     - Fries - 1.00 <dinar>
\*     - Tea - 1.2.3 <dinar>
ServiceOddText ==
    << <<"#", "#", " ", "S", "I", "D", "E", "S">>,
       <<"-", " ", "F", "r", "i", "e", "s", " ", "-", " ", "1", ".", "0", "0", " ", "U+062F", "U+064A", "U+0646", "U+0627", "U+0631">>,
       <<"-", " ", "T", "e", "a", " ", "-", " ", "1", ".", "2", ".", "3", " ", "U+062F", "U+064A", "U+0646", "U+0627", "U+0631">> >>

\* a list item in the format of main.py with a price that is not a number:
\*     ## SIDES
\*     - **Tea** - 1.2.3 JD
MainOddText ==
    << <<"#", "#", " ", "S", "I", "D", "E", "S">>,
       <<"-", " ", "*", "*", "T", "e", "a", "*", "*", " ", "-", " ", "1", ".", "2", ".", "3", " ", "J", "D">> >>

\* a text in the format of menu_service.py with a subcategory and a line in Arabic
\* before a category header, and after the header a price table with a row of three
\* cells and a row of two cells, and a list item:
\*     ## BURGERS
\*     ### Max
\*     <arabic>
\*     ## KIDS
\*     | Size | Regular | Meal |
\*     |---|---|---|
\*     | Mini | 1.00 <dinar> | - |
\*     | Midi | 1.25 <dinar> |
\*     - Tea - 0.50 <dinar>
ServiceStaleText ==
    << <<"#", "#", " ", "B", "U", "R", "G", "E", "R", "S">>,
       <<"#", "#", "#", " ", "M", "a", "x">>,
       <<"U+0644", "U+062D", "U+0645">>,
       <<"#", "#", " ", "K", "I", "D", "S">>,
       <<"|", " ", "S", "i", "z", "e", " ", "|", " ", "R", "e", "g", "u", "l", "a", "r", " ", "|", " ", "M", "e", "a", "l", " ", "|">>,
       <<"|", "-", "-", "-", "|", "-", "-", "-", "|", "-", "-", "-", "|">>,
       <<"|", " ", "M", "i", "n", "i", " ", "|", " ", "1", ".", "0", "0", " ", "U+062F", "U+064A", "U+0646", "U+0627", "U+0631", " ", "|", " ", "-", " ", "|">>,
       <<"|", " ", "M", "i", "d", "i", " ", "|", " ", "1", ".", "2", "5", " ", "U+062F", "U+064A", "U+0646", "U+0627", "U+0631", " ", "|">>,
       <<"-", " ", "T", "e", "a", " ", "-", " ", "0", ".", "5", "0", " ", "U+062F", "U+064A", "U+0646", "U+0627", "U+0631">> >>

\* a text in the format of menu_service.py with a delivery number, two lines in Arabic
\* before a list item, a second list item and a list item after the bullet character:
\*     DELIVERY: 0790
\*     ## SIDES
\*     <arabic>
\*     <arabic>
\*     - Tea - 0.50 <dinar>
\*     - Bun - 0.75 <dinar>
\*     <bullet> Pie - 1.00 <dinar>
ServiceBulletText ==
    << <<"D", "E", "L", "I", "V", "E", "R", "Y", ":", " ", "0", "7", "9", "0">>,
       <<"#", "#", " ", "S", "I", "D", "E", "S">>,
       <<"U+0642", "U+0647", "U+0648", "U+0629">>,
       <<"U+0634", "U+0627", "U+064A">>,
       <<"-", " ", "T", "e", "a", " ", "-", " ", "0", ".", "5", "0", " ", "U+062F", "U+064A", "U+0646", "U+0627", "U+0631">>,
       <<"-", " ", "B", "u", "n", " ", "-", " ", "0", ".", "7", "5", " ", "U+062F", "U+064A", "U+0646", "U+0627", "U+0631">>,
       <<"U+2022", " ", "P", "i", "e", " ", "-", " ", "1", ".", "0", "0", " ", "U+062F", "U+064A", "U+0646", "U+0627", "U+0631">> >>

\* a text in the format of main.py with a description and a row of two cells under a
\* subcategory, a table after a category header, and a list with a line in Arabic before
\* an item and a category header after it:
\*     ### Max
\*     **Hot**
\*     | Size | Regular | Meal |
\*     |---|---|---|
\*     | Mini | 1.00 JD |
\*     | Midi | 1.25 JD | x |
\*     ## SIDES
\*     | Size | Regular | Meal |
\*     |---|---|---|
\*     | Maxi | 1.50 JD | x |
\*     <arabic>
\*     - **Tea** - 0.50 JD
\*     ## DRINKS
\*     - **Bun** - 0.75 JD
MainMixText ==
    << <<"#", "#", "#", " ", "M", "a", "x">>,
       <<"*", "*", "H", "o", "t", "*", "*">>,
       <<"|", " ", "S", "i", "z", "e", " ", "|", " ", "R", "e", "g", "u", "l", "a", "r", " ", "|", " ", "M", "e", "a", "l", " ", "|">>,
       <<"|", "-", "-", "-", "|", "-", "-", "-", "|", "-", "-", "-", "|">>,
       <<"|", " ", "M", "i", "n", "i", " ", "|", " ", "1", ".", "0", "0", " ", "J", "D", " ", "|">>,
       <<"|", " ", "M", "i", "d", "i", " ", "|", " ", "1", ".", "2", "5", " ", "J", "D", " ", "|", " ", "x", " ", "|">>,
       <<"#", "#", " ", "S", "I", "D", "E", "S">>,
       <<"|", " ", "S", "i", "z", "e", " ", "|", " ", "R", "e", "g", "u", "l", "a", "r", " ", "|", " ", "M", "e", "a", "l", " ", "|">>,
       <<"|", "-", "-", "-", "|", "-", "-", "-", "|", "-", "-", "-", "|">>,
       <<"|", " ", "M", "a", "x", "i", " ", "|", " ", "1", ".", "5", "0", " ", "J", "D", " ", "|", " ", "x", " ", "|">>,
       <<"U+0634", "U+0627", "U+064A">>,
       <<"-", " ", "*", "*", "T", "e", "a", "*", "*", " ", "-", " ", "0", ".", "5", "0", " ", "J", "D">>,
       <<"#", "#", " ", "D", "R", "I", "N", "K", "S">>,
       <<"-", " ", "*", "*", "B", "u", "n", "*", "*", " ", "-", " ", "0", ".", "7", "5", " ", "J", "D">> >>

Texts ==
    <<EmptyText, JunkText, ServiceListText, ServiceTwinText, ServiceTableText,
      ServiceManyText, ServiceRowsText, ServiceOddText, MainListText, MainTableText,
      MainManyText, MainRowsText, MainOddText, ServiceStaleText, ServiceBulletText,
      MainMixText>>

(***************************************************************************)
(* The state of the two programs                                           *)
(***************************************************************************)

\* the modification times the menu file takes
MaxMtime == 2

Mtimes == 1..MaxMtime

\* the default of MENU_TXT, the path of the menu file
MENU_TXT == <<"M", "E", "N", "U", ".", "t", "x", "t">>

\* the menu file is missing
NoFile == [exists |-> FALSE, text |-> <<>>, mtime |-> 0]

\* the menu file holds a text
FileOf(text, mtime) == [exists |-> TRUE, text |-> text, mtime |-> mtime]

Files == {NoFile} \cup {FileOf(Texts[t], m) : t \in 1..Len(Texts), m \in Mtimes}


\* the texts a program is given: the empty file, a text outside the menu grammar and the
\* texts in the format its parser reads; a text in the format of the other parser gives
\* no item, as the text outside the grammar does
TextsOf(p) ==
    IF p = "main"
    THEN {EmptyText, JunkText, MainListText, MainTableText, MainManyText, MainRowsText,
          MainOddText, MainMixText}
    ELSE {EmptyText, JunkText, ServiceListText, ServiceTwinText, ServiceTableText,
          ServiceManyText, ServiceRowsText, ServiceOddText, ServiceStaleText,
          ServiceBulletText}

\* the files a program is given: main.py compares the modification time with
\* MENU_MTIME, MenuService never reads it, so one time stands for all of them
FilesOf(p) ==
    {f \in Files : \/ f = NoFile
                   \/ /\ f.text \in TextsOf(p)
                      /\ p = "service" => f.mtime = 1}

\* the queries passed to search_item: the empty one, a blank one, a name, a shared alias
\* and a name of two words
Queries ==
    { <<>>,
      <<" ">>,
      <<"C", "o", "l", "a">>,
      <<"c", "h", "e", "e", "s", "e">>,
      <<"C", "h", "e", "e", "s", "e", " ", "D", "i", "p">> }

\* the messages posted to /chat: a blank one, a name, a name that contains another
\* name, and misspelt words
Messages ==
    { <<" ", " ">>,
      <<"c", "o", "l", "a">>,
      <<"C", "h", "e", "e", "s", "e", " ", " ", "F", "r", "i", "e", "s">>,
      <<"c", "o", "k", "a">>,
      <<"f", "r", "a", "b", "s">>,
      <<"k", "o", "l", "a", " ", "f", "r", "a", "b", "s">>,
      <<"t", "e", "a">> }

\* what on_startup leaves in MENU: load_menu(MENU_FILE) gives [] without a menu file
\* and the rows of data/menu.json with one
StartupMenus ==
    { <<>>,
      << MenuItem(<<"1">>, <<"T", "e", "a">>, Decimal(5, 1), None, None) >> }

\* CHAT_HISTORY[session_id] = hist[-20:]
HistoryCap == 20

\* if len(CHAT_HISTORY) > 200
SessionCap == 200

\* req.session_id of a request without one
NoSession == <<>>

\* the session id that one client got from its first reply and sends with every request
KnownSession == <<"s", "1">>

\* str(uuid.uuid4()): an id that no request carries; the store tells the sessions under
\* such ids apart by their place only
Uuid == <<"u", "u", "i", "d">>

VARIABLES
    program,           \* the program that runs: "main" (main.py) or "service" (MenuService)
    file,              \* the menu file at MENU_TXT
    menu_items,        \* MenuService.menu_items
    categories,        \* MenuService.categories
    all_item_names,    \* MenuService.all_item_names
    raw_menu_text,     \* MenuService.raw_menu_text, as its lines
    delivery_number,   \* MenuService.delivery_number, None while the attribute is not set
    load,              \* the coroutine load_menu: where it stands
    search,            \* the call of search_item: where it stands, and its locals
    MENU,              \* main.py: the global MENU
    MENU_SOURCE_PATH,  \* main.py: the global MENU_SOURCE_PATH
    MENU_MTIME,        \* main.py: the global MENU_MTIME, <<>> for None and <<m>> for m
    CHAT_HISTORY,      \* main.py: the global CHAT_HISTORY, its sessions in the order of
                       \* their insertion, each with its id and the roles of its messages
    call               \* the last call that returned, until its caller has the result

vars ==
    <<program, file, menu_items, categories, all_item_names, raw_menu_text,
      delivery_number, load, search, MENU, MENU_SOURCE_PATH, MENU_MTIME, CHAT_HISTORY, call>>

svcVars ==
    <<menu_items, categories, all_item_names, raw_menu_text, delivery_number, load, search>>

mainVars == <<MENU, MENU_SOURCE_PATH, MENU_MTIME, CHAT_HISTORY>>

NoCall == [op |-> "none"]

Idle == [pc |-> "idle"]

\* the three structures of MenuService that make its catalogue
Catalog ==
    [menu_items |-> menu_items, categories |-> categories,
     all_item_names |-> all_item_names]

\* the catalogue of a new MenuService
EmptyCatalog == [menu_items |-> <<>>, categories |-> <<>>, all_item_names |-> <<>>]

\* the state after the construction of MenuService and after the import of main.py
\* and its start-up
Init ==
    /\ program \in {"main", "service"}
    /\ file \in FilesOf(program)
    /\ menu_items = <<>>
    /\ categories = <<>>
    /\ all_item_names = <<>>
    /\ raw_menu_text = << <<>> >>
    /\ delivery_number = None
    /\ load = Idle
    /\ search = Idle
    /\ MENU \in (IF program = "main" THEN StartupMenus ELSE {<<>>})
    /\ MENU_SOURCE_PATH = None
    /\ MENU_MTIME = <<>>
    /\ CHAT_HISTORY = <<>>
    /\ call = NoCall

\* nothing runs and no result waits for its caller
Quiescent == call = NoCall /\ load = Idle /\ search = Idle

(***************************************************************************)
(* The menu file changes                                                   *)
(***************************************************************************)

WriteFile(text, mtime) ==
    /\ Quiescent
    /\ FileOf(text, mtime) \in FilesOf(program)
    /\ file' = FileOf(text, mtime)
    /\ UNCHANGED <<program, svcVars, mainVars, call>>

RemoveFile ==
    /\ Quiescent
    /\ file.exists
    /\ file' = NoFile
    /\ UNCHANGED <<program, svcVars, mainVars, call>>

\* the caller takes the result of the call
Return ==
    /\ call # NoCall
    /\ call' = NoCall
    /\ UNCHANGED <<program, file, svcVars, mainVars>>

(***************************************************************************)
(* MenuService on the event loop                                           *)
(*                                                                         *)
(* load_menu is a coroutine without an await and search_item is a plain    *)
(* method that ChatService calls from a coroutine: the event loop runs     *)
(* each of them from its first statement to its return before it runs     *)
(* anything else.  The steps below are the statements that read or write   *)
(* the catalogue; Scheduled is what the event loop grants.                 *)
(***************************************************************************)

\* a loop that lets a task take a step at any time, as threads would
ScheduledAnytime(task) == task \in {"load_menu", "search_item"}

\* the event loop lets a task take a step: no other task is between two of its steps
Scheduled(task) ==
    /\ task = "load_menu" => search = Idle
    /\ task = "search_item" => load = Idle

\* a load_menu that resets the catalogue before it looks for the file
LoadMissingCleared ==
    /\ ~file.exists
    /\ menu_items' = <<>>
    /\ categories' = <<>>
    /\ all_item_names' = <<>>
    /\ call' = [op |-> "load_menu", ok |-> FALSE, found |-> FALSE, text |-> <<>>,
                before |-> Catalog, after |-> EmptyCatalog]
    /\ UNCHANGED <<raw_menu_text, load>>

\* load_menu: if not menu_path.exists(): return False
LoadMissing ==
    /\ ~file.exists
    /\ call' = [op |-> "load_menu", ok |-> FALSE, found |-> FALSE, text |-> <<>>,
                before |-> Catalog, after |-> Catalog]
    /\ UNCHANGED <<menu_items, categories, all_item_names, raw_menu_text, load>>

\* load_menu: self.raw_menu_text = f.read()
LoadRead ==
    /\ file.exists
    /\ raw_menu_text' = file.text
    /\ load' = [pc |-> "reset", before |-> Catalog]
    /\ UNCHANGED <<menu_items, categories, all_item_names, call>>

\* load_menu is called
LoadBegin ==
    /\ program = "service"
    /\ call = NoCall
    /\ load = Idle
    /\ Scheduled("load_menu")
    /\ (LoadMissing \/ LoadRead)
    /\ UNCHANGED <<program, file, delivery_number, search, mainVars>>

\* a _parse_menu that keeps the items of the load before and appends to them
LoadResetKeeping ==
    /\ load.pc = "reset"
    /\ Scheduled("load_menu")
    /\ delivery_number' = DeliveryNumber(raw_menu_text, delivery_number)
    /\ load' = [load EXCEPT !.pc = "lines"]
    /\ UNCHANGED <<program, file, menu_items, categories, all_item_names, raw_menu_text,
                   search, mainVars, call>>

\* _parse_menu: self.menu_items = []; self.categories = {}, and the delivery number,
\* assigned when the text has one
LoadReset ==
    /\ load.pc = "reset"
    /\ Scheduled("load_menu")
    /\ menu_items' = <<>>
    /\ categories' = <<>>
    /\ delivery_number' = DeliveryNumber(raw_menu_text, delivery_number)
    /\ load' = [load EXCEPT !.pc = "lines"]
    /\ UNCHANGED <<program, file, all_item_names, raw_menu_text, search, mainVars, call>>

\* _parse_menu: the loop over the lines, which appends to menu_items and categories
LoadLines ==
    /\ load.pc = "lines"
    /\ Scheduled("load_menu")
    /\ LET st == ParseLines([ParseStart EXCEPT !.items = menu_items, !.cats = categories],
                            raw_menu_text)
       IN  /\ menu_items' = st.items
           /\ categories' = st.cats
    /\ load' = [load EXCEPT !.pc = "names"]
    /\ UNCHANGED <<program, file, all_item_names, raw_menu_text, delivery_number, search,
                   mainVars, call>>

\* _parse_menu: all_item_names is rebuilt from menu_items; load_menu: return True
LoadNames ==
    /\ load.pc = "names"
    /\ Scheduled("load_menu")
    /\ all_item_names' = BuildItemNames(menu_items)
    /\ load' = Idle
    /\ call' = [op |-> "load_menu", ok |-> TRUE, found |-> TRUE, text |-> raw_menu_text,
                before |-> load.before,
                after |-> [Catalog EXCEPT !.all_item_names = BuildItemNames(menu_items)]]
    /\ UNCHANGED <<program, file, menu_items, categories, raw_menu_text, delivery_number,
                   search, mainVars>>

\* search_item: if not query or not self.all_item_names: return []
SearchNothing(query, threshold, table) ==
    /\ query = <<>> \/ all_item_names = <<>>
    /\ call' = [op |-> "search_item", query |-> query, threshold |-> threshold,
                table |-> table, names |-> all_item_names, items |-> menu_items,
                matches |-> <<>>, results |-> <<>>]
    /\ UNCHANGED search

\* search_item: matches = process.extract(query, self.all_item_names, ...)
SearchExtract(query, threshold, table) ==
    /\ query # <<>> /\ all_item_names # <<>>
    /\ search' = [pc |-> "resolve", query |-> query, threshold |-> threshold,
                  table |-> table, names |-> all_item_names,
                  matches |-> Extract(table, query, all_item_names)]
    /\ UNCHANGED call

\* search_item is called
SearchBegin(query, threshold) ==
    /\ program = "service"
    /\ call = NoCall
    /\ search = Idle
    /\ Scheduled("search_item")
    /\ \E table \in ScoreTables(all_item_names, query) :
          SearchNothing(query, threshold, table) \/ SearchExtract(query, threshold, table)
    /\ UNCHANGED <<program, file, menu_items, categories, all_item_names, raw_menu_text,
                   delivery_number, load, mainVars>>

\* a search_item that takes the items it returns out of menu_items
SearchResolveTaking ==
    /\ search # Idle
    /\ Scheduled("search_item")
    /\ LET results == TopResults(Resolve(search.matches, menu_items,
                                         search.threshold, <<>>, {}))
           Kept(item) == \A k \in 1..Len(results) : results[k].item # item
       IN  /\ call' = [op |-> "search_item", query |-> search.query,
                       threshold |-> search.threshold, table |-> search.table,
                       names |-> search.names, items |-> menu_items,
                       matches |-> search.matches, results |-> results]
           /\ menu_items' = SelectSeq(menu_items, Kept)
    /\ search' = Idle
    /\ UNCHANGED <<program, file, categories, all_item_names, raw_menu_text,
                   delivery_number, load, mainVars>>

\* search_item: the loops over the matches and self.menu_items, the sort and the return
SearchResolve ==
    /\ search # Idle
    /\ Scheduled("search_item")
    /\ call' = [op |-> "search_item", query |-> search.query,
                threshold |-> search.threshold, table |-> search.table,
                names |-> search.names, items |-> menu_items,
                matches |-> search.matches,
                results |-> TopResults(Resolve(search.matches, menu_items,
                                               search.threshold, <<>>, {}))]
    /\ search' = Idle
    /\ UNCHANGED <<program, file, menu_items, categories, all_item_names, raw_menu_text,
                   delivery_number, load, mainVars>>

\* a dict with a name and without the price keys, as a caller of
\* format_item_with_price can build one
BareItem == [name |-> <<"T", "e", "a">>]

\* ChatService._build_context calls format_item_with_price(item)
FormatItem(item) ==
    /\ program = "service"
    /\ Quiescent
    /\ call' = [op |-> "format_item_with_price", item |-> item,
                text |-> format_item_with_price(item)]
    /\ UNCHANGED <<program, file, svcVars, mainVars>>

\* ChatService._build_system_prompt calls get_delivery_info()
GetDeliveryInfo ==
    /\ program = "service"
    /\ Quiescent
    /\ call' = [op |-> "get_delivery_info", text |-> raw_menu_text,
                info |-> get_delivery_info(delivery_number)]
    /\ UNCHANGED <<program, file, svcVars, mainVars>>

(***************************************************************************)
(* main.py: refresh_menu_if_needed and the routes /menu and /chat          *)
(*                                                                         *)
(* The handlers are coroutines without an await: each is one step.         *)
(***************************************************************************)

\* the lines that iterating over the open file yields for a text
FileLines(text) ==
    IF text # <<>> /\ text[Len(text)] = <<>> THEN Upto(text, Len(text) - 1) ELSE text

\* load_menu_from_txt(MENU_TXT) when the file holds the text
load_menu_from_txt(text) == LoadLoop(FileLines(text), 1, LoadStart).items

\* the globals of main.py
Globals == [MENU |-> MENU, MENU_SOURCE_PATH |-> MENU_SOURCE_PATH, MENU_MTIME |-> MENU_MTIME]

\* a refresh that parses the file whenever it exists
RefreshAlways ==
    IF file.exists
    THEN [MENU |-> load_menu_from_txt(file.text), MENU_SOURCE_PATH |-> MENU_TXT,
          MENU_MTIME |-> <<file.mtime>>]
    ELSE [MENU |-> <<>>, MENU_SOURCE_PATH |-> MENU_TXT, MENU_MTIME |-> <<>>]

\* the globals after refresh_menu_if_needed()
refresh_menu_if_needed ==
    IF file.exists
    THEN IF MENU_SOURCE_PATH # MENU_TXT \/ MENU_MTIME # <<file.mtime>> \/ MENU = <<>>
         THEN [MENU |-> load_menu_from_txt(file.text), MENU_SOURCE_PATH |-> MENU_TXT,
               MENU_MTIME |-> <<file.mtime>>]
         ELSE Globals
    ELSE [MENU |-> <<>>, MENU_SOURCE_PATH |-> MENU_TXT, MENU_MTIME |-> <<>>]

\* s[-n:]
Last(s, n) == IF Len(s) <= n THEN s ELSE SubSeq(s, Len(s) - n + 1, Len(s))

\* the history of the session after one exchange
HistoryAfter(hist) ==
    Last(Append(Last(Append(hist, "user"), HistoryCap), "assistant"), HistoryCap)

\* the place of the session in the store, 0 when the store has none under the id; an
\* id that uuid4 has just made is not in the store
SessionIndex(store, session_id) ==
    IF session_id # Uuid /\ \E k \in 1..Len(store) : store[k].id = session_id
    THEN CHOOSE k \in 1..Len(store) : store[k].id = session_id
    ELSE 0

\* CHAT_HISTORY.get(session_id, [])
HistoryOf(store, session_id) ==
    IF SessionIndex(store, session_id) = 0 THEN <<>>
    ELSE store[SessionIndex(store, session_id)].hist

\* CHAT_HISTORY[session_id] = hist: a session in the store keeps its place, a new one
\* comes last
Put(store, session_id, hist) ==
    IF SessionIndex(store, session_id) = 0
    THEN Append(store, [id |-> session_id, hist |-> hist])
    ELSE [store EXCEPT ![SessionIndex(store, session_id)].hist = hist]

\* a store that never drops a session
KeepSessions(store) == store

\* the oldest sessions are dropped while the store holds more than 200
CapSessions(store) ==
    IF Len(store) > SessionCap THEN From(store, Len(store) - SessionCap + 1) ELSE store

\* session_id = req.session_id or str(uuid.uuid4())
SessionOf(session_id) == IF session_id = NoSession THEN Uuid ELSE session_id

\* CHAT_HISTORY after the exchange of one request
StoreAfter(store, session_id) ==
    CapSessions(Put(store, SessionOf(session_id),
                    HistoryAfter(HistoryOf(store, SessionOf(session_id)))))

\* join_prices of generate_demo_response: the price text of each of the first limit
\* items
join_prices(items, limit) ==
    [k \in 1..(IF Len(items) < limit THEN Len(items) ELSE limit) |->
        IF items[k].price # NoPrice THEN fmt_jd(items[k].price) ELSE <<>>]

\* the globals become those that refresh_menu_if_needed() leaves
Refreshed(g) ==
    /\ MENU' = g.MENU
    /\ MENU_SOURCE_PATH' = g.MENU_SOURCE_PATH
    /\ MENU_MTIME' = g.MENU_MTIME

\* get_menu after refresh_menu_if_needed() left the globals g
GetMenuWith(g) ==
    /\ Refreshed(g)
    /\ call' = [op |-> "get_menu", status |-> 200, file |-> file, before |-> Globals,
                items |-> g.MENU, count |-> Len(g.MENU)]

\* GET /menu without filters
GetMenu ==
    /\ program = "main"
    /\ call = NoCall
    /\ GetMenuWith(refresh_menu_if_needed)
    /\ UNCHANGED <<program, file, svcVars, CHAT_HISTORY>>

\* POST /chat: if not req.message or not req.message.strip(): HTTP 400
ChatBlank(message, session_id) ==
    /\ Strip(message) = <<>>
    /\ call' = [op |-> "chat", status |-> 400, message |-> message,
                session_id |-> session_id, file |-> file, before |-> Globals,
                history |-> CHAT_HISTORY, matched |-> <<>>, prices |-> <<>>]
    /\ UNCHANGED mainVars

\* chat after refresh_menu_if_needed() left the globals g: the history grows and the
\* reply is built from find_items_in_text(message)
ChatReplyWith(message, session_id, g) ==
    /\ Refreshed(g)
    /\ CHAT_HISTORY' = StoreAfter(CHAT_HISTORY, session_id)
    /\ call' = [op |-> "chat", status |-> 200, message |-> message,
                session_id |-> session_id, file |-> file, before |-> Globals,
                history |-> CHAT_HISTORY,
                matched |-> find_items_in_text(g.MENU, message),
                prices |-> join_prices(find_items_in_text(g.MENU, message), 5)]

\* POST /chat with a message that is not blank
ChatReply(message, session_id) ==
    /\ Strip(message) # <<>>
    /\ ChatReplyWith(message, session_id, refresh_menu_if_needed)

Chat(message, session_id) ==
    /\ program = "main"
    /\ call = NoCall
    /\ (ChatBlank(message, session_id) \/ ChatReply(message, session_id))
    /\ UNCHANGED <<program, file, svcVars>>

(***************************************************************************)
(* The specification                                                       *)
(***************************************************************************)

Next ==
    \/ \E t \in 1..Len(Texts), m \in Mtimes : WriteFile(Texts[t], m)
    \/ RemoveFile
    \/ LoadBegin
    \/ LoadReset
    \/ LoadLines
    \/ LoadNames
    \/ \E query \in Queries, threshold \in Thresholds : SearchBegin(query, threshold)
    \/ SearchResolve
    \/ \E item \in {menu_items[k] : k \in 1..Len(menu_items)} \cup {BareItem} :
          FormatItem(item)
    \/ GetDeliveryInfo
    \/ GetMenu
    \/ \E message \in Messages : Chat(message, KnownSession)
    \/ Return

Spec == Init /\ [][Next]_vars

(***************************************************************************)
(* The chat history under many sessions                                    *)
(*                                                                         *)
(* main.py without a menu file, with the requests of one client that       *)
(* keeps its session id and of clients that send none.                     *)
(***************************************************************************)

\* the requests without a session id that may come before the first request of the
\* client that keeps its session id
MaxEarly == 2

\* the requests to /chat: a blank message, and a message with and without a session id
ChatRequests ==
    { [message |-> <<" ", " ">>, session_id |-> NoSession],
      [message |-> <<"c", "o", "l", "a">>, session_id |-> NoSession],
      [message |-> <<"c", "o", "l", "a">>, session_id |-> KnownSession] }

\* a request that the bound MaxEarly lets in
Admitted(req) ==
    \/ req.session_id = KnownSession
    \/ SessionIndex(CHAT_HISTORY, KnownSession) # 0
    \/ Len(CHAT_HISTORY) < MaxEarly

ChatInit == Init /\ program = "main" /\ file = NoFile /\ MENU = <<>>

ChatNext ==
    \/ \E req \in ChatRequests : Admitted(req) /\ Chat(req.message, req.session_id)
    \/ Return

ChatSpec == ChatInit /\ [][ChatNext]_vars

(***************************************************************************)
(* Vocabulary of the properties                                            *)
(***************************************************************************)

\* the catalogue that _parse_menu builds from a text
CatalogOf(text) ==
    [menu_items |-> ParseLines(ParseStart, text).items,
     categories |-> ParseLines(ParseStart, text).cats,
     all_item_names |-> BuildItemNames(ParseLines(ParseStart, text).items)]

\* the generations of the catalogue of MenuService: the new one and one for each text
Generations == {EmptyCatalog} \cup {CatalogOf(Texts[t]) : t \in 1..Len(Texts)}

\* the generations of MENU: what start-up leaves, the cleared menu and one for each text
MenuGenerations ==
    StartupMenus \cup {<<>>} \cup {load_menu_from_txt(Texts[t]) : t \in 1..Len(Texts)}

\* a call of load_menu has returned
Loaded == call.op = "load_menu"

\* a call of search_item has returned
Searched == call.op = "search_item"

\* a request to /chat or /menu has been answered after refresh_menu_if_needed() ran
Refreshing == call.op \in {"chat", "get_menu"} /\ call.status = 200

\* a request to /chat has been answered with the items of find_items_in_text
Chatted == call.op = "chat" /\ call.status = 200

\* the items of a result of search_item, in its order
ResultItems(results) == [k \in 1..Len(results) |-> results[k].item]

\* the item is among the items of a sequence
Among(item, items) == \E k \in 1..Len(items) : items[k] = item

\* the position of an item in the catalogue
IndexOf(item, items) == CHOOSE i \in 1..Len(items) : items[i] = item /\ \A k \in 1..(i - 1) : items[k] # item

\* the scores of the names and aliases of an item for the query of the returned search
ScoresOf(item) ==
    {WRatio(call.table, call.query, ItemNames(item)[k]) : k \in 1..Len(ItemNames(item))}

\* the best of them
BestScore(item) == CHOOSE s \in ScoresOf(item) : \A t \in ScoresOf(item) : t <= s

\* the items of a menu whose normalized name is a non-empty part of the normalized text
NamedIn(menu, user_text) ==
    LET Named(it) == /\ normalize(it.name) # <<>>
                     /\ Contains(normalize(user_text), normalize(it.name))
    IN  SelectSeq(menu, Named)

\* the score of an item of MENU for the message of the answered chat
ChatScore(it) == ItemScore(it, normalize(call.message))

(***************************************************************************)
(* Properties of loading                                                   *)
(***************************************************************************)

\* C1: after a successful load, a load or refresh whose source text is empty leaves the
\* item list, the category index and the name list exactly as they were, and the load
\* returns failure.
C1_EmptySourceKeepsCatalog ==
    /\ (Loaded /\ call.found /\ call.text = EmptyText /\ call.before.menu_items # <<>>)
           => (~call.ok /\ Catalog = call.before)
    /\ (Refreshing /\ call.file.exists /\ call.file.text = EmptyText
                   /\ call.before.MENU # <<>>)
           => MENU = call.before.MENU

\* C2: a search observes the catalogue of one generation: the names search_item ranks
\* and the items it resolves them to are those of one complete parse, the catalogue of
\* MenuService is a complete generation whenever load_menu is not running, and MENU is
\* a complete generation at every request.
C2_OneGeneration ==
    /\ Searched =>
           \E g \in Generations :
               call.names = g.all_item_names /\ call.items = g.menu_items
    /\ search # Idle =>
           \E g \in Generations :
               search.names = g.all_item_names /\ menu_items = g.menu_items
    /\ load = Idle => Catalog \in Generations
    /\ MENU \in MenuGenerations

\* C2: a reload stands between its statements: the items are those of the new text and
\* the names are still those of the old one
C2_Witness_HalfBuilt ==
    /\ load # Idle
    /\ load.pc = "names"
    /\ menu_items # <<>>
    /\ all_item_names # <<>>
    /\ all_item_names # BuildItemNames(menu_items)

\* C3: when the menu file is missing, load_menu returns False and leaves the catalogue
\* as it was; refresh_menu_if_needed signals nothing and clears MENU: the request is
\* answered with the empty menu, MENU_SOURCE_PATH set and MENU_MTIME None.
C3_MissingSource ==
    /\ (Loaded /\ ~call.found) => (~call.ok /\ Catalog = call.before)
    /\ (Refreshing /\ ~call.file.exists) =>
           /\ MENU = <<>>
           /\ MENU_SOURCE_PATH = MENU_TXT
           /\ MENU_MTIME = <<>>

\* C3: load_menu has returned False for a missing file when a menu was loaded before
C3_Witness_MissingAfterLoad ==
    /\ Loaded
    /\ ~call.found
    /\ call.before.menu_items # <<>>
    /\ Catalog = call.before

\* C3 as stated: when the menu file is missing, the load or refresh signals failure and
\* the prior catalogue remains active and unchanged.
C3_Original_PriorKept ==
    /\ (Loaded /\ ~call.found) => (~call.ok /\ Catalog = call.before)
    /\ (Refreshing /\ ~call.file.exists) => MENU = call.before.MENU

\* C4: a load whose parse completes with zero items from a text that is not empty is
\* reported as a failure.
C4_ZeroItemsFails ==
    (Loaded /\ call.found /\ call.text # EmptyText /\ call.after.menu_items = <<>>)
        => ~call.ok

(***************************************************************************)
(* Properties of the searches                                              *)
(***************************************************************************)

C6_ExactNameFirst ==
    /\ Chatted =>
           \A i \in 1..Len(MENU) :
               normalize(MENU[i].name) = normalize(call.message)
                   => /\ call.matched # <<>>
                      /\ normalize(call.matched[1].name) = normalize(call.message)
    /\ Searched =>
           \A i \in 1..Len(call.items) :
               normalize(call.items[i].name) = normalize(call.query)
                   => /\ call.results # <<>>
                      /\ normalize(call.results[1].item.name) = normalize(call.query)

\* the items of the returned search have distinct ids, the names fit the limit of
\* process.extract and the items fit the cut of the result
Uncut ==
    /\ Len(call.names) <= ExtractLimit
    /\ Len(call.items) <= MaxResults
    /\ \A i, j \in 1..Len(call.items) :
           i # j => ItemId(call.items[i]) # ItemId(call.items[j])

\* C7: no entry of a result of search_item has a score below the threshold, an item
\* whose best score is below the threshold (threshold - 1 included) is not in the
\* result, and an item whose best score is exactly the threshold is in it when nothing
\* is cut; find_items_in_text returns from its fuzzy pass only items that score at least
\* 0.6, and every such item, one that scores exactly 0.6 included, when nothing is cut.
C7_ThresholdBoundary ==
    /\ Searched =>
           /\ \A k \in 1..Len(call.results) : call.results[k].score >= call.threshold
           /\ \A i \in 1..Len(call.items) :
                  BestScore(call.items[i]) < call.threshold
                      => ~Among(call.items[i], ResultItems(call.results))
           /\ Uncut =>
                  \A i \in 1..Len(call.items) :
                      BestScore(call.items[i]) = call.threshold
                          => Among(call.items[i], ResultItems(call.results))
    /\ (Chatted /\ NamedIn(MENU, call.message) = <<>>) =>
           /\ \A k \in 1..Len(call.matched) : GreaterEq(ChatScore(call.matched[k]), Cutoff)
           /\ Len(MENU) <= MaxFound =>
                  \A i \in 1..Len(MENU) :
                      GreaterEq(ChatScore(MENU[i]), Cutoff) => Among(MENU[i], call.matched)

\* C7: a search has returned an item whose best score is the threshold and has left out
\* an item whose best score is the threshold less one
C7_Witness_Boundary ==
    /\ Searched
    /\ \E i, j \in 1..Len(call.items) :
           /\ BestScore(call.items[i]) = call.threshold
           /\ Among(call.items[i], ResultItems(call.results))
           /\ BestScore(call.items[j]) = call.threshold - 1
           /\ ~Among(call.items[j], ResultItems(call.results))

\* C8: the entries of a result of search_item have distinct item ids, and the score of
\* an entry is the greatest score of the names and aliases of its item.
C8_OncePerItemBestScore ==
    Searched =>
        /\ \A j, k \in 1..Len(call.results) :
               j # k => ItemId(call.results[j].item) # ItemId(call.results[k].item)
        /\ \A k \in 1..Len(call.results) :
               call.results[k].score = BestScore(call.results[k].item)

\* C8: an entry of the result has an item with a second name or alias that clears the
\* threshold with a lower score
C8_Witness_TwoNamesClear ==
    /\ Searched
    /\ \E k \in 1..Len(call.results) :
           \E s \in ScoresOf(call.results[k].item) :
               call.threshold <= s /\ s < call.results[k].score

\* C9: an item with a name or alias that scores at least the threshold is missing from
\* the result of search_item only when the result holds five entries that score at least
\* as much.
C9_FuzzyComplete ==
    Searched =>
        \A i \in 1..Len(call.items) :
            (/\ BestScore(call.items[i]) >= call.threshold
             /\ ~Among(call.items[i], ResultItems(call.results)))
                => /\ Len(call.results) = MaxResults
                   /\ \A k \in 1..Len(call.results) :
                          call.results[k].score >= BestScore(call.items[i])

\* C10: the results of a search are in descending order of score, and entries of equal
\* score are in catalogue order.
C10_ScoreThenCatalogOrder ==
    /\ Searched =>
           \A j, k \in 1..Len(call.results) :
               j < k =>
                   \/ call.results[j].score > call.results[k].score
                   \/ /\ call.results[j].score = call.results[k].score
                      /\ IndexOf(call.results[j].item, call.items)
                             < IndexOf(call.results[k].item, call.items)
    /\ (Chatted /\ NamedIn(MENU, call.message) = <<>>) =>
           \A j, k \in 1..Len(call.matched) :
               j < k =>
                   /\ GreaterEq(ChatScore(call.matched[j]), ChatScore(call.matched[k]))
                   /\ GreaterEq(ChatScore(call.matched[k]), ChatScore(call.matched[j]))
                          => IndexOf(call.matched[j], MENU) < IndexOf(call.matched[k], MENU)

\* the blank texts: the empty one and those of whitespace only
BlankTexts == { <<>>, <<" ">>, <<" ", " ">> }

\* C11: a search with an empty or whitespace-only query returns an empty result, for
\* every catalogue: search_item for such a query, and find_items_in_text for such a text
\* on the MENU of every state.
C11_BlankQueryEmpty ==
    /\ (Searched /\ Strip(call.query) = <<>>) => call.results = <<>>
    /\ \A blank \in BlankTexts : find_items_in_text(MENU, blank) = <<>>


\* a step of a call of search_item
SearchStep ==
    search # Idle \/ search' # Idle \/ (call = NoCall /\ call'.op = "search_item")

\* C12: a search leaves the item list, the category index and the name list as they
\* are, and the same search repeated on the catalogue that the first one left returns
\* the same results in the same order: search_item for the same query, threshold and
\* scorer, find_items_in_text for the same message.
C12_SearchPure ==
    /\ [](Searched =>
             call.results = search_item(call.query, call.threshold, call.table,
                                        all_item_names, menu_items))
    /\ [](Chatted => call.matched = find_items_in_text(MENU, call.message))
    /\ [][SearchStep => UNCHANGED <<menu_items, categories, all_item_names>>]_vars

\* C12: a search has returned items of a catalogue of more than one item
C12_Witness_Found ==
    /\ Searched
    /\ call.results # <<>>
    /\ Len(menu_items) > 1
    /\ Len(call.results) < Len(menu_items)

(***************************************************************************)
(* Properties of the parsers                                               *)
(***************************************************************************)

\* the number of the entries of a sequence that satisfy a test
Count(xs, Test(_)) == Len(SelectSeq(xs, Test))

\* the header line of a price table: a row with the column labels Size, Regular and Meal
TableHeaderLine(line) ==
    /\ StartsWith(line, <<"|">>)
    /\ Contains(line, <<"S", "i", "z", "e">>)
    /\ Contains(line, <<"R", "e", "g", "u", "l", "a", "r">>)
    /\ Contains(line, <<"M", "e", "a", "l">>)

\* line i of a text is a row of a price table: it starts with a pipe, and so does every
\* line between it and a table header before it
TableRowAt(lines, i) ==
    /\ StartsWith(Strip(lines[i]), <<"|">>)
    /\ ~TableHeaderLine(Strip(lines[i]))
    /\ \E h \in 1..(i - 1) :
           /\ TableHeaderLine(Strip(lines[h]))
           /\ \A k \in (h + 1)..i : StartsWith(Strip(lines[k]), <<"|">>)

\* the table rows of a text with at least three cells
TableRowsOf(lines) == {i \in 1..Len(lines) : TableRowAt(lines, i) /\ Len(Cols(Strip(lines[i]))) >= 3}

\* the bulleted lines of a text
BulletLinesOf(lines) == {i \in 1..Len(lines) : StartsWith(Strip(lines[i]), <<"-", " ">>)}

\* the text of the last header with the marker before line i, None when there is none
HeaderBefore(lines, i, marker) ==
    LET Marked(k) == StartsWith(Strip(lines[k]), marker \o <<" ">>)
    IN  IF \E k \in 1..(i - 1) : Marked(k)
        THEN LET k == CHOOSE k \in 1..(i - 1) : Marked(k) /\ \A j \in (k + 1)..(i - 1) : ~Marked(j)
             IN  Strip(From(Strip(lines[k]), Len(marker) + 1))
        ELSE None

CategoryAt(lines, i) == HeaderBefore(lines, i, <<"#", "#">>)

SubcategoryAt(lines, i) == HeaderBefore(lines, i, <<"#", "#", "#">>)

\* "<subcategory> <size>" for the table row at line i, the size alone without a subcategory
RowName(lines, i) ==
    IF SubcategoryAt(lines, i) = None THEN Cols(Strip(lines[i]))[1]
    ELSE SubcategoryAt(lines, i) \o <<" ">> \o Cols(Strip(lines[i]))[1]

\* cell n of the table row at line i
Cell(lines, i, n) == Cols(Strip(lines[i]))[n]

\* the items MenuService holds for the table row at line i of the text it has loaded: one
\* of the variant "regular" with the name "<subcategory> <size>" and the regular price,
\* and with a meal price one of the variant "meal" with that name as its name or its
\* localized name, the category of the row and the meal price
ServiceRowEmitted(items, lines, i) ==
    LET Regular(it) == /\ it.type = "regular"
                       /\ it.name = RowName(lines, i)
                       /\ it.category = CategoryAt(lines, i)
                       /\ it.price_regular = SearchPrice(Cell(lines, i, 2))
        Meal(it) == /\ it.type = "meal"
                    /\ it.name = RowName(lines, i) \/ it.name_ar = RowName(lines, i)
                    /\ it.category = CategoryAt(lines, i)
                    /\ it.price_regular = SearchPrice(Cell(lines, i, 3))
    IN  /\ Count(items, Regular) = 1
        /\ SearchPrice(Cell(lines, i, 3)) # None => Count(items, Meal) = 1

\* the same for the items of load_menu_from_txt, which marks the variant in the id and
\* after the name
MainRowEmitted(items, lines, i) ==
    LET Regular(it) == /\ EndsWith(it.id, <<"-", "r", "e", "g", "u", "l", "a", "r">>)
                       /\ StartsWith(it.name, RowName(lines, i))
                       /\ it.price = price_num(Cell(lines, i, 2))
        Meal(it) == /\ EndsWith(it.id, <<"-", "m", "e", "a", "l">>)
                    /\ StartsWith(it.name, RowName(lines, i))
                    /\ it.price = price_num(Cell(lines, i, 3))
                    /\ \E k \in 1..Len(items) : Regular(items[k]) /\ items[k].category = it.category
    IN  /\ Count(items, Regular) = 1
        /\ price_num(Cell(lines, i, 3)) # NoPrice => Count(items, Meal) = 1

\* C13: for every row of a price table whose regular price parses the parser emits one
\* item of the variant "regular" named "<subcategory> <size>", and one more of the
\* variant "meal" with the meal price when the meal price parses too; the row of the size
\* Regular under the subcategory Beef gives the items priced 3.50 and 4.75.
C13_TableRowItems ==
    /\ (Loaded /\ call.ok) =>
           \A i \in TableRowsOf(call.text) :
               SearchPrice(Cell(call.text, i, 2)) # None
                   => ServiceRowEmitted(call.after.menu_items, call.text, i)
    /\ (Refreshing /\ call.file.exists) =>
           \A i \in TableRowsOf(call.file.text) :
               price_num(Cell(call.file.text, i, 2)) # NoPrice
                   => MainRowEmitted(load_menu_from_txt(call.file.text), call.file.text, i)

\* the table rows of a text whose "<subcategory> <size>" no other row of it has
LoneRowsOf(lines) ==
    {i \in TableRowsOf(lines) :
        \A j \in TableRowsOf(lines) : j # i => RowName(lines, j) # RowName(lines, i)}

\* C14: a row of a price table without a parseable regular price emits no item, even
\* when its meal price parses: no item of the catalogue carries the name of the row.
C14_NoRegularNoItem ==
    /\ (Loaded /\ call.ok) =>
           \A i \in LoneRowsOf(call.text) :
               SearchPrice(Cell(call.text, i, 2)) = None
                   => \A k \in 1..Len(call.after.menu_items) :
                          /\ call.after.menu_items[k].name # RowName(call.text, i)
                          /\ call.after.menu_items[k].name_ar # RowName(call.text, i)
    /\ (Refreshing /\ call.file.exists) =>
           \A i \in LoneRowsOf(call.file.text) :
               price_num(Cell(call.file.text, i, 2)) = NoPrice
                   => \A k \in 1..Len(load_menu_from_txt(call.file.text)) :
                          ~StartsWith(load_menu_from_txt(call.file.text)[k].name,
                                      RowName(call.file.text, i))

\* the position of the last " - " of a bulleted line after its bullet, 0 when there is none
LastSeparator(line) ==
    LET Sep(j) == j > 2 /\ StartsAt(line, <<" ", "-", " ">>, j)
    IN  IF \E j \in 1..Len(line) : Sep(j)
        THEN CHOOSE j \in 1..Len(line) : Sep(j) /\ \A k \in (j + 1)..Len(line) : ~Sep(k)
        ELSE 0

\* the name of a bulleted line "- <name> - <price> <currency word>", without the bold
\* marks; empty when the line has no separator
BulletName(line) ==
    IF LastSeparator(line) = 0 THEN <<>>
    ELSE Strip(RemoveBold(SubSeq(line, 3, LastSeparator(line) - 1)))

\* the price field of a bulleted line, with its currency word
BulletField(line) == Strip(From(line, LastSeparator(line) + 3))

\* the bulleted lines of a text that have a name and a price field
PricedBulletsOf(lines) ==
    {i \in BulletLinesOf(lines) :
        BulletName(Strip(lines[i])) # <<>> /\ BulletField(Strip(lines[i])) # <<>>}

\* C15: a bulleted item whose name is recognized and whose price field does not parse
\* is emitted with the price absent: the catalogue holds an item of that name without a
\* price.  The field parses for _parse_list_item when it is a decimal number followed by
\* the currency word, and for load_menu_from_txt when float() reads it without 'JD'.
C15_UnpricedListItemKept ==
    /\ (Loaded /\ call.ok) =>
           \A i \in PricedBulletsOf(call.text) :
               ~PriceMatchAt(BulletField(Strip(call.text[i])), 1)
                   => \E k \in 1..Len(call.after.menu_items) :
                          /\ call.after.menu_items[k].name = BulletName(Strip(call.text[i]))
                          /\ call.after.menu_items[k].price_regular = None
    /\ (Refreshing /\ call.file.exists) =>
           \A i \in PricedBulletsOf(call.file.text) :
               price_num(BulletField(Strip(call.file.text[i]))) = NoPrice
                   => \E k \in 1..Len(load_menu_from_txt(call.file.text)) :
                          /\ load_menu_from_txt(call.file.text)[k].name
                                 = BulletName(Strip(call.file.text[i]))
                          /\ load_menu_from_txt(call.file.text)[k].price = NoPrice

\* C16: the price of every item of a catalogue is absent or at least 0: a price of MENU
\* is not a negative number, and a price of MenuService, kept as text, has no minus sign.
C16_PriceNotNegative ==
    /\ \A k \in 1..Len(MENU) : MENU[k].price = NoPrice \/ MENU[k].price.mant >= 0
    /\ \A k \in 1..Len(menu_items) :
           \/ menu_items[k].price_regular = None
           \/ \A j \in 1..Len(menu_items[k].price_regular) :
                  menu_items[k].price_regular[j] # "-"

\* C17: no two items of one catalogue carry the same id.
C17_UniqueIds ==
    \A i, j \in 1..Len(MENU) : i # j => MENU[i].id # MENU[j].id

\* the items of a sequence with the category c, in their order
InCategory(items, c) ==
    LET Has(it) == it.category = c
    IN  SelectSeq(items, Has)

\* C18: after a load the category index is exact: the keys are distinct, the list of a
\* category holds the items of menu_items with that category, each once and in their
\* order, and nothing else, and every item with a category has its category among the
\* keys.
C18_CategoryIndexExact ==
    load = Idle =>
        /\ \A c, d \in 1..Len(categories) : c # d => categories[c].key # categories[d].key
        /\ \A c \in 1..Len(categories) :
               categories[c].items = InCategory(menu_items, categories[c].key)
        /\ \A k \in 1..Len(menu_items) :
               Truthy(menu_items[k].category) => CatIndex(categories, menu_items[k].category) # 0

\* C18: a load has filled two categories
C18_Witness_TwoCategories ==
    /\ Loaded
    /\ call.ok
    /\ \E c, d \in 1..Len(categories) :
           c # d /\ categories[c].items # <<>> /\ categories[d].items # <<>>

\* C19: the search keys of every item of the catalogue, its name, its localized name
\* when it differs and its aliases, are not empty and no two of them have the same
\* normalized form (case folded, whitespace collapsed).
C19_DistinctSearchKeys ==
    \A k \in 1..Len(menu_items) :
        /\ ItemNames(menu_items[k]) # <<>>
        /\ \A i, j \in 1..Len(ItemNames(menu_items[k])) :
               i # j => normalize(ItemNames(menu_items[k])[i])
                            # normalize(ItemNames(menu_items[k])[j])

\* refresh_menu_if_needed() has parsed the file for the answered request
Reparsed ==
    /\ Refreshing
    /\ call.file.exists
    /\ \/ call.before.MENU_SOURCE_PATH # MENU_TXT
       \/ call.before.MENU_MTIME # <<call.file.mtime>>
       \/ call.before.MENU = <<>>

\* C20: parsing is idempotent: a parse of a text gives the items, the categories and the
\* names that a parse of that text gives from the empty catalogue, whatever was loaded
\* before it, the same text included.
C20_ParseIdempotent ==
    /\ (Loaded /\ call.ok) => call.after = CatalogOf(call.text)
    /\ Reparsed => MENU = load_menu_from_txt(call.file.text)

\* C20: a text has been loaded over the catalogue of an earlier load of the same text
C20_Witness_LoadedTwice ==
    /\ Loaded
    /\ call.ok
    /\ call.before.menu_items # <<>>
    /\ call.before = CatalogOf(call.text)
    /\ call.after = call.before

(***************************************************************************)
(* Properties of the formatters, the parse state and the stores            *)
(***************************************************************************)

\* a dict that carries a price
Priced(item) == "price_regular" \in DOMAIN item /\ Truthy(item.price_regular)

\* C21: the price text of an item with a price is its amount followed by the currency
\* word, and the price text of an item without a price is empty, never a zero or a
\* default amount: what format_item_with_price returns ends with the amount, a space
\* and the currency word for a dict with a price and is empty for a dict without one,
\* and the price text of each item in a reply of /chat is empty for an item without a
\* price and else an amount that reads back as the price, a space and the currency word
C21_FormatPrice ==
    /\ call.op = "format_item_with_price" =>
          IF Priced(call.item)
          THEN EndsWith(call.text, call.item.price_regular \o <<" ">> \o Dinar)
          ELSE call.text = <<>>
    /\ Chatted =>
          \A k \in 1..Len(call.prices) :
              IF call.matched[k].price = NoPrice THEN call.prices[k] = <<>>
              ELSE /\ EndsWith(call.prices[k], <<" ">> \o Dinar)
                   /\ ParseFloat(Upto(call.prices[k], Len(call.prices[k]) - Len(Dinar) - 1))
                          = call.matched[k].price

\* the category header lines of a text: "## <label>"
CategoryLinesOf(lines) ==
    {i \in 1..Len(lines) : StartsWith(Strip(lines[i]), <<"#", "#", " ">>)}

\* C22: when the parser has passed a category header line, its current category is the
\* label of that line and its current subcategory and its pending description are
\* cleared, so that no item after the header inherits a subcategory or a description
\* from before it; for MenuService the pending description is the pending line in Arabic
C22_CategoryHeaderClears ==
    /\ (Loaded /\ call.ok) =>
           \A i \in CategoryLinesOf(call.text) :
               LET st == ParseLines(ParseStart, Upto(call.text, i))
               IN  /\ st.current_category = CategoryAt(call.text, i + 1)
                   /\ st.current_subcategory = None
                   /\ st.pending_arabic_translation = None
    /\ (Refreshing /\ call.file.exists) =>
           \A i \in CategoryLinesOf(FileLines(call.file.text)) :
               LET st == LoadLoop(Upto(FileLines(call.file.text), i), 1, LoadStart)
               IN  /\ st.current_category = CategoryAt(FileLines(call.file.text), i + 1)
                   /\ st.current_sub = None
                   /\ st.pending_desc = None

\* a description line: a line with a letter in Arabic that is no header, no table row
\* and no list item
DescriptionLine(rawline) ==
    LET line == Strip(rawline)
    IN  /\ \E k \in 1..Len(line) : line[k] \in ArabicChars
        /\ ~Contains(line, <<"|">>)
        /\ ~StartsWith(line, <<"#">>)
        /\ ~StartsWith(line, <<"-">>)
        /\ ~StartsWith(line, <<Bullet>>)
        /\ ~StartsWith(line, <<"*", "*">>)

\* the description lines of a text that a header line or another description line
\* follows at once, and whose text no other line of the text carries
DroppedDescriptionsOf(lines) ==
    {i \in 1..(Len(lines) - 1) :
        /\ DescriptionLine(lines[i])
        /\ StartsWith(Strip(lines[i + 1]), <<"#", "#">>) \/ DescriptionLine(lines[i + 1])
        /\ \A j \in 1..Len(lines) : j # i => Strip(lines[j]) # Strip(lines[i])}

\* C23: a description line that a header line or another description line follows at
\* once is dropped: no item of the catalogue that MenuService builds from the text
\* carries it as its localized name
C23_DescriptionDropped ==
    (Loaded /\ call.ok) =>
        \A i \in DroppedDescriptionsOf(call.text) :
            \A k \in 1..Len(call.after.menu_items) :
                call.after.menu_items[k].name_ar # Strip(call.text[i])

\* the bulleted lines of a text with a name and a price field whose name no other
\* such line of the text carries
LoneBulletsOf(lines) ==
    {i \in PricedBulletsOf(lines) :
        \A j \in PricedBulletsOf(lines) :
            j # i => BulletName(Strip(lines[j])) # BulletName(Strip(lines[i]))}

\* the description line right before line i, None when the line before is no
\* description line
DescriptionBefore(lines, i) ==
    IF i > 1 /\ DescriptionLine(lines[i - 1]) THEN Strip(lines[i - 1]) ELSE None

\* C24: the item of a bulleted priced line carries the description line right before
\* it, and no description when the line before it is no description line, so that a
\* description goes to one item at most; MenuService keeps the description as the
\* localized name of the item, which is its name when there is none, and main.py keeps
\* it in the field description
C24_DescriptionAttached ==
    /\ (Loaded /\ call.ok) =>
           \A i \in LoneBulletsOf(call.text) :
               \A k \in 1..Len(call.after.menu_items) :
                   call.after.menu_items[k].name = BulletName(Strip(call.text[i]))
                       => call.after.menu_items[k].name_ar
                              = IF DescriptionBefore(call.text, i) = None
                                THEN call.after.menu_items[k].name
                                ELSE DescriptionBefore(call.text, i)
    /\ (Refreshing /\ call.file.exists) =>
           \A i \in LoneBulletsOf(call.file.text) :
               \A k \in 1..Len(load_menu_from_txt(call.file.text)) :
                   load_menu_from_txt(call.file.text)[k].name
                           = BulletName(Strip(call.file.text[i]))
                       => load_menu_from_txt(call.file.text)[k].description
                              = DescriptionBefore(call.file.text, i)

\* the rows of the price tables of a text that have two cells: a size and one price
TwoCellRowsOf(lines) ==
    {i \in 1..Len(lines) : TableRowAt(lines, i) /\ Len(Cols(Strip(lines[i]))) = 2}

\* C25: the meal price cell of a table row is optional: a row with a size cell and a
\* regular price cell that parses, and no third cell, gives the item of the variant
\* "regular" with the size and the price of the row
C25_MealCellOptional ==
    /\ (Loaded /\ call.ok) =>
           \A i \in TwoCellRowsOf(call.text) :
               SearchPrice(Cell(call.text, i, 2)) # None
                   => \E k \in 1..Len(call.after.menu_items) :
                          /\ call.after.menu_items[k].type = "regular"
                          /\ call.after.menu_items[k].size = Cell(call.text, i, 1)
                          /\ call.after.menu_items[k].price_regular
                                 = SearchPrice(Cell(call.text, i, 2))
    /\ (Refreshing /\ call.file.exists) =>
           \A i \in TwoCellRowsOf(call.file.text) :
               price_num(Cell(call.file.text, i, 2)) # NoPrice
                   => \E k \in 1..Len(load_menu_from_txt(call.file.text)) :
                          /\ EndsWith(load_menu_from_txt(call.file.text)[k].id,
                                      <<"-">> \o Cell(call.file.text, i, 1)
                                          \o <<"-", "r", "e", "g", "u", "l", "a", "r">>)
                          /\ load_menu_from_txt(call.file.text)[k].price
                                 = price_num(Cell(call.file.text, i, 2))

\* the menu file of a request is the one the globals before it record: it exists, the
\* recorded path is its path, the recorded time is its time and MENU is not empty
Current(f, g) ==
    /\ f.exists
    /\ g.MENU_SOURCE_PATH = MENU_TXT
    /\ g.MENU_MTIME = <<f.mtime>>
    /\ g.MENU # <<>>

\* C26: refresh_menu_if_needed parses the menu file only when needed: when the file
\* exists, the recorded path is its path, the recorded modification time is its time
\* and MENU is not empty, the refresh leaves MENU, MENU_SOURCE_PATH and MENU_MTIME as
\* they were; when the file exists and the recorded path or time differs, MENU becomes
\* the parse of the file and the path and the time of the file are recorded
C26_RefreshWhenNeeded ==
    Refreshing =>
        /\ Current(call.file, call.before) => Globals = call.before
        /\ (/\ call.file.exists
            /\ \/ call.before.MENU_SOURCE_PATH # MENU_TXT
               \/ call.before.MENU_MTIME # <<call.file.mtime>>)
               => /\ MENU = load_menu_from_txt(call.file.text)
                  /\ MENU_SOURCE_PATH = MENU_TXT
                  /\ MENU_MTIME = <<call.file.mtime>>

\* a request found the file with the recorded path and time and another text than the
\* one MENU was parsed from, and MENU stayed
C26_Witness_NotParsedAgain ==
    /\ Refreshing
    /\ Current(call.file, call.before)
    /\ MENU # load_menu_from_txt(call.file.text)
    /\ MENU = call.before.MENU

\* C27: every category header line takes effect: the item of a bulleted priced line
\* carries the category of the last category header line before it, in its canonical
\* form for main.py, also when that header line comes right after another bulleted line
C27_HeaderTakesEffect ==
    /\ (Loaded /\ call.ok) =>
           \A i \in LoneBulletsOf(call.text) :
               \A k \in 1..Len(call.after.menu_items) :
                   call.after.menu_items[k].name = BulletName(Strip(call.text[i]))
                       => call.after.menu_items[k].category = CategoryAt(call.text, i)
    /\ (Refreshing /\ call.file.exists) =>
           \A i \in LoneBulletsOf(call.file.text) :
               \A k \in 1..Len(load_menu_from_txt(call.file.text)) :
                   load_menu_from_txt(call.file.text)[k].name
                           = BulletName(Strip(call.file.text[i]))
                       => load_menu_from_txt(call.file.text)[k].category
                              = cat_map(CategoryAt(call.file.text, i))

\* the lines of a text that start with the bullet character
BulletCharLinesOf(lines) == {i \in 1..Len(lines) : StartsWith(Strip(lines[i]), <<Bullet>>)}

\* the line with a hyphen in the place of its first character
DashTwin(line) == <<"-">> \o Tail(line)

\* C28: for MenuService a line that starts with the bullet character and carries a
\* name, a hyphen, a decimal price and the currency word gives one list item, as the
\* same line with a hyphen in the place of the bullet character does: the catalogue
\* holds one item with the name and the price of that line
C28_BulletCharItem ==
    (Loaded /\ call.ok) =>
        \A i \in BulletCharLinesOf(call.text) :
            LET twin == ListItems(DashTwin(Strip(call.text[i])), None, None)
                Same(it) == /\ it.name = twin[1].name
                            /\ it.price_regular = twin[1].price_regular
            IN  twin # <<>> => Count(call.after.menu_items, Same) = 1

\* C29: get_delivery_info reflects the text loaded last and no text before it: it
\* returns the label with the delivery number of that text, and the label with the
\* default number when that text has none, whatever number an earlier text had
C29_DeliveryOfLastText ==
    call.op = "get_delivery_info" =>
        call.info = get_delivery_info(DeliveryNumber(call.text, None))

\* C30: the chat history stays bounded: whatever the requests, no session of the
\* store holds more than 20 messages and the store holds no more than 200 sessions, and
\* a request that is rejected for its blank message leaves the store as it was
C30_HistoryBounded ==
    /\ Len(CHAT_HISTORY) <= SessionCap
    /\ \A k \in 1..Len(CHAT_HISTORY) : Len(CHAT_HISTORY[k].hist) <= HistoryCap
    /\ (call.op = "chat" /\ call.status = 400) => CHAT_HISTORY = call.history

\* a request without a session id was answered when the store held 200 sessions, one of
\* them with 20 messages: the store holds 200 sessions again and that session is kept
C30_Witness_BothCaps ==
    /\ Chatted
    /\ call.session_id = NoSession
    /\ Len(call.history) = SessionCap
    /\ Len(CHAT_HISTORY) = SessionCap
    /\ Len(HistoryOf(CHAT_HISTORY, KnownSession)) = HistoryCap

=============================================================================
